---- MODULE Spec2Model ----
(***************************************************************************)
(* The l2bridge driver core (src/l2bridge/bridge.go): the registry of      *)
(* networks and endpoints, the three locks, and the host's links, with     *)
(* every driver call run by a thread one lock operation or kernel call at  *)
(* a time.                                                                 *)
(*                                                                         *)
(* Abstractions.  A veth pair is one host link with two names (deleting    *)
(* either end deletes both).  A link is identified by its kernel index,    *)
(* which is never reused; a handle returned by LinkByName is that index.   *)
(* Every kernel call may fail for reasons outside the driver.  A network   *)
(* id is the pair of its first 12 characters and the rest.                 *)
(***************************************************************************)
EXTENDS Integers, Sequences, FiniteSets, TLC

\* Number of driver calls started in one behaviour.
MaxOps == 2

Threads == {"t1", "t2"}
NetIds == {[pre |-> "aaa", suf |-> "1"], [pre |-> "aaa", suf |-> "2"]}
EpIds == {"e1", "e2"}
\* The empty network id.
NoNet == [pre |-> "", suf |-> ""]
\* An id of three characters, and the keys the registry is read with.
ShortId == [pre |-> "abc", suf |-> ""]
Keys == NetIds \cup {ShortId}
\* len(id): the pre of an id of NetIds stands for twelve characters.
IdLen(id) == IF id = NoNet THEN 0 ELSE IF id = ShortId THEN 3 ELSE 13
\* The length of the prefix parseNetworkOptions slices off the id.
PrefixLen == 12
\* Interface names netutils.GenerateIfaceName can draw: two for each call that
\* can run, and two for an endpoint the driver starts with.
VethName(k) == "veth" \o ToString(k)
VethNumbers == 1..(2 * (MaxOps + 1))
VethNames == {VethName(k) : k \in VethNumbers}
Free == "free"

\* Error classes (libnetwork types.* and src/unnamed/part_001).
NoErr == "nil"
BadRequest == "BadRequest"
Forbidden == "Forbidden"
NotFound == "NotFound"
Maskable == "Maskable"
Internal == "Internal"
Unclassified == "Unclassified"
NotImplemented == "NotImplemented"

----------------------------------------------------------------------------
\* Addresses (net.IP, net.HardwareAddr) are sequences of bytes and a network
\* (net.IPNet) is an address with the number of ones of its mask; the nil
\* address is the empty sequence.

NilIP == <<>>
IPNet(ip, ones) == [IP |-> ip, ones |-> ones]
NilNet == IPNet(NilIP, 0)

RECURSIVE Pow2(_)
Pow2(k) == IF k = 0 THEN 1 ELSE 2 * Pow2(k - 1)

\* The number of mask bits that fall into byte i of a mask of so many ones.
MaskBits(ones, i) ==
    LET k == ones - 8 * (i - 1) IN IF k < 0 THEN 0 ELSE IF k > 8 THEN 8 ELSE k

\* b & m for the mask byte m with its k high bits set (the cleared low bits
\* are dropped).
Masked(b, k) == b \div Pow2(8 - k)

\* net.IPNet.Contains: addresses of the same length whose masked bytes agree.
Contains(n, ip) ==
    /\ Len(ip) = Len(n.IP)
    /\ \A i \in 1..Len(ip) :
         Masked(n.IP[i], MaskBits(n.ones, i)) = Masked(ip[i], MaskBits(n.ones, i))

DefaultRoute == IPNet(<<0, 0, 0, 0>>, 0)
Pool4 == IPNet(<<10, 0, 0, 0>>, 24)
PoolB == IPNet(<<10, 1, 0, 0>>, 24)
\* fd00:: with a prefix of so many bits.
Pool6(ones) == IPNet(<<253, 0, 0, 0, 0, 0, 0, 0, 0, 0, 0, 0, 0, 0, 0, 0>>, ones)

\* An IPAM record: its pool and its default-gateway auxiliary address.
IPAM(pool, gw) == [Pool |-> pool, Gateway |-> gw]

\* The arguments of CreateNetwork the model draws from: option BridgeName
\* ("" when unset), the text of option MTU ("" when unset), the IPv6 flag, the
\* IPv4 and the IPv6 IPAM records.
Options(br, mtu, v6, v4d, v6d) ==
    [br |-> br, mtu |-> mtu, v6 |-> v6, v4d |-> v4d, v6d |-> v6d, prefix |-> ""]

GoodOptions ==
    { Options("",    "",     FALSE, <<IPAM(Pool4, NilIP)>>, <<>>),
      Options("brA", "1500", TRUE,  <<IPAM(Pool4, NilIP)>>, <<IPAM(Pool6(64), NilIP)>>),
      Options("brA", "",     TRUE,  <<IPAM(Pool4, NilIP)>>, <<IPAM(Pool6(96), NilIP)>>) }

BadOptions ==
    { Options("", "",    FALSE, <<>>, <<>>),
      Options("", "",    FALSE, <<IPAM(DefaultRoute, NilIP)>>, <<>>),
      Options("", "-1",  FALSE, <<IPAM(Pool4, NilIP)>>, <<>>),
      Options("", "",    FALSE, <<IPAM(Pool4, NilIP), IPAM(PoolB, NilIP)>>, <<>>) }

\* Options whose IPv4 record names a default gateway, inside the pool and
\* outside of it.
GatewayIn == <<10, 0, 0, 1>>
GatewayOut == <<10, 1, 0, 1>>
Gateway6In == <<253, 0, 0, 0, 0, 0, 0, 0, 0, 0, 0, 0, 0, 0, 0, 1>>
Gateway6Out == <<253, 1, 0, 0, 0, 0, 0, 0, 0, 0, 0, 0, 0, 0, 0, 1>>
GatewayOptions ==
    { Options("", "", FALSE, <<IPAM(Pool4, GatewayIn)>>, <<>>),
      Options("", "", FALSE, <<IPAM(Pool4, GatewayOut)>>, <<>>) }

\* Options whose MTU text is no number.
UnparsedOptions == { Options("", "abc", FALSE, <<IPAM(Pool4, NilIP)>>, <<>>) }

NetOptions == GoodOptions \cup BadOptions

NoOpt == Options("", "", FALSE, <<>>, <<>>)

\* A networkConfiguration.
Config(id, br, mtu, v6, p4, g4, p6, g6) ==
    [ID |-> id, BridgeName |-> br, Mtu |-> mtu, EnableIPv6 |-> v6,
     PoolIPv4 |-> p4, DefaultGatewayIPv4 |-> g4, PoolIPv6 |-> p6, DefaultGatewayIPv6 |-> g6,
     ContainerIfacePrefix |-> ""]

NoConfig == Config(NoNet, "", 0, FALSE, NilNet, NilIP, NilNet, NilIP)

\* The interface request of CreateEndpoint: its MAC (nil when the request has
\* none), its IPv4 address and its IPv6 address.  The adapter passes what
\* ParseEndpointInterface returned, which is never nil; NilEI is the value of
\* a thread without a call.
EI(mac, addr, v6) == [nil |-> FALSE, mac |-> mac, addr |-> addr, v6 |-> v6]
NilEI == [nil |-> TRUE, mac |-> NilIP, addr |-> NilNet, v6 |-> NilNet]
MacA == <<170, 187, 204, 0, 0, 1>>
Addr2 == IPNet(<<10, 0, 0, 2>>, 24)
Addr3 == IPNet(<<10, 0, 0, 3>>, 24)
\* The endpoint options of CreateEndpoint: a nil map, or a map in which the
\* MacAddress label is absent, a net.HardwareAddr or a value of another type.
EpOptions(nil, key, mac) == [nil |-> nil, key |-> key, mac |-> mac]
NilOptions == EpOptions(TRUE, "absent", NilIP)
MacB == <<170, 187, 204, 0, 0, 2>>
\* What CreateEndpoint returns with a nil error: the fields it set.
NoOut == [mac |-> NilIP, v6 |-> NilNet]
\* A JoinResponse, and the one of a thread without a Join.
JoinResponse(src, dst, gw, gw6, off) ==
    [SrcName |-> src, DstPrefix |-> dst, Gateway |-> gw, GatewayIPv6 |-> gw6,
     DisableGatewayService |-> off]
NoJoin == JoinResponse("", "", NilIP, NilIP, FALSE)
\* The map EndpointInfo returns: the MacAddress and the Gateway entry, each
\* nil when the map has no such key.
NoInfo == [MacAddress |-> NilIP, Gateway |-> NilIP]
defaultContainerVethPrefix == "eth"
EndpointInterfaces(eid) ==
    IF eid = "e1" THEN { EI(NilIP, Addr2, NilNet) }
                  ELSE { EI(MacA, Addr3, NilNet) }

VARIABLES
    networks,   \* d.networks: network id -> index into nets, 0 when absent
    nets,       \* the bridgeNetwork objects ever allocated (gone: deleted since)
    eps,        \* the bridgeEndpoint objects ever allocated
    links,      \* the host's links by kernel index
    dLock,      \* bridgeDriver's embedded sync.Mutex
    cfgLock,    \* bridgeDriver.configNetwork
    nLock,      \* each bridgeNetwork's embedded sync.Mutex
    th,         \* each thread's call, position and locals
    touched,    \* history: the thread's current call changed registry, objects or links
    ops,        \* calls started so far
    dconfig,    \* d.config: the driver's configuration
    rules       \* the host's filter table: the bridges whose local-forwarding rule is there

vars == <<networks, nets, eps, links, dLock, cfgLock, nLock, th, touched, ops, dconfig, rules>>

----------------------------------------------------------------------------
\* Thread records.

Idle ==
    [pc |-> "idle", op |-> "", nid |-> CHOOSE i \in NetIds : TRUE, eid |-> "",
     opt |-> NoOpt, ei |-> NilEI, epo |-> NilOptions,
     epConfig |-> [nil |-> TRUE, MacAddress |-> NilIP], out |-> NoOut,
     join |-> NoJoin, info |-> NoInfo,
     config |-> NoConfig,
     br |-> "", n |-> 0, ep |-> 0, endpoint |-> 0, blink |-> 0,
     queue |-> <<>>,
     hostIf |-> "", sbIf |-> "", host |-> 0, sbox |-> 0, link |-> 0, visited |-> {},
     err |-> NoErr, res |-> NoErr, os |-> 0,
     kfail |-> FALSE, made |-> 0, inserted |-> FALSE,
     refused |-> FALSE, done |-> FALSE, hp |-> "none",
     preNet |-> FALSE, preEp |-> FALSE, quiet |-> FALSE, clash |-> FALSE]

At(t, p) == th[t].pc = p

Set(t, r) == th' = [th EXCEPT ![t] = r]

\* The calls whose first statement is defer osl.InitOSContext()(): the thread
\* takes the OS execution context when the call starts (os counts the
\* contexts it holds) and the deferred function gives it back at the return.
OSContextCalls == {"CreateEndpoint", "DeleteEndpoint", "Join", "Leave"}

\* The call returns r: its position becomes "ret" with the result kept.
\* A returned call keeps its result and what it recorded, not its locals.
Returned(c, r) ==
    [Idle EXCEPT !.pc = "ret", !.res = r, !.op = c.op, !.kfail = c.kfail,
                 !.os = c.os - (IF c.op \in OSContextCalls THEN 1 ELSE 0),
                 !.inserted = c.inserted, !.preNet = c.preNet, !.preEp = c.preEp,
                 !.quiet = c.quiet]

Return(t, r) == Set(t, Returned(th[t], r))

\* A thread takes a call when it runs none.  Threads are interchangeable, so
\* the first call of a run is given to "t1".
Ready(t) ==
    /\ th[t].pc \in {"idle", "ret"}
    /\ t # "t1" => th["t1"].pc # "idle"

\* History: whether this step changed the registry, an object or a link.
Track(t) ==
    touched' = [touched EXCEPT ![t] =
                  @ \/ networks' # networks \/ nets' # nets \/ eps' # eps \/ links' # links
                    \/ rules' # rules]

----------------------------------------------------------------------------
\* The host's links (the netlink handle's calls).

LinkIdx == 1..Len(links)

Named(name) ==
    IF name = "" THEN {}
    ELSE {i \in LinkIdx : links[i].alive /\ name \in {links[i].name, links[i].peer}}

\* nlh.LinkByName: the index of the live link carrying the name, 0 when none.
LinkByName(name) == IF Named(name) = {} THEN 0 ELSE CHOOSE i \in Named(name) : TRUE

Alive(i) == i \in LinkIdx /\ links[i].alive

\* /proc/sys/net/ipv6/conf/<name>/disable_ipv6 as a link's field: the bytes of
\* the file.  setSysBoolParam writes '0' or '1' and a newline; getSysBoolParam
\* is whether the first byte read is '1'.
setSysBoolParam(on) == <<IF on THEN "1" ELSE "0", "\n">>

getSysBoolParam(line) == Len(line) > 0 /\ line[1] = "1"

ParamOff == setSysBoolParam(FALSE)

\* nlh.LinkAdd of a bridge or of a veth pair: a new index.
Added(kind, name, peer) ==
    Append(links, [kind |-> kind, name |-> name, peer |-> peer, alive |-> TRUE, up |-> FALSE,
                   disable_ipv6 |-> ParamOff, hairpin |-> FALSE])

DeadLink ==
    [kind |-> "", name |-> "", peer |-> "", alive |-> FALSE, up |-> FALSE,
     disable_ipv6 |-> <<>>, hairpin |-> FALSE]

\* nlh.LinkDel by index.
Deleted(i) == [links EXCEPT ![i] = DeadLink]

Bridges == {i \in LinkIdx : links[i].alive /\ links[i].kind = "bridge"}

Veths == {i \in LinkIdx : links[i].alive /\ links[i].kind = "veth"}

----------------------------------------------------------------------------
\* Configuration parsing (pure).

\* networkConfiguration.Validate
Validate(c) ==
    IF c.Mtu < 0 THEN BadRequest
    ELSE IF c.PoolIPv4 # NilNet /\ c.DefaultGatewayIPv4 # NilIP
            /\ ~Contains(c.PoolIPv4, c.DefaultGatewayIPv4)
    THEN BadRequest
    ELSE IF c.EnableIPv6 /\ c.DefaultGatewayIPv6 # NilIP
            /\ (c.PoolIPv6 = NilNet \/ ~Contains(c.PoolIPv6, c.DefaultGatewayIPv6))
    THEN BadRequest
    ELSE NoErr

\* strconv.Atoi on the texts the model uses.
Atoi(s) ==
    CASE s = "0" -> [err |-> NoErr, n |-> 0]
      [] s = "1500" -> [err |-> NoErr, n |-> 1500]
      [] s = "-1" -> [err |-> NoErr, n |-> 0 - 1]
      [] OTHER -> [err |-> BadRequest, n |-> 0]

\* parseNetworkGenericOptions / fromLabels and the EnableIPv6 label: the
\* configuration the options give, or the parse error.
fromLabels(id, o) ==
    LET mtu == IF o.mtu = "" THEN [err |-> NoErr, n |-> 0] ELSE Atoi(o.mtu) IN
    [err |-> mtu.err,
     config |-> [Config(id, o.br, mtu.n, o.v6, NilNet, NilIP, NilNet, NilIP)
                   EXCEPT !.ContainerIfacePrefix = o.prefix]]

\* id[:12] stops the call (a run-time panic: slice bounds out of range) when
\* the id has fewer than 12 characters.
SliceInRange(id) == IdLen(id) >= PrefixLen

\* parseNetworkOptions' default: "br-" + id[:12].
BridgeNameOf(id, o) == IF o.br = "" THEN "br-" \o id.pre ELSE o.br

\* networkConfiguration.processIPAM: the error, or the configuration with the
\* pools and gateways of the IPAM data.
processIPAM(c, v4, v6) ==
    IF Len(v4) > 1 \/ Len(v6) > 1 THEN [err |-> Forbidden, config |-> c]
    ELSE IF Len(v4) = 0 \/ v4[1].Pool = NilNet THEN [err |-> BadRequest, config |-> c]
    ELSE [err |-> NoErr,
          config |-> [c EXCEPT !.PoolIPv4 = v4[1].Pool,
                               !.DefaultGatewayIPv4 = v4[1].Gateway,
                               !.PoolIPv6 = IF Len(v6) > 0 THEN v6[1].Pool ELSE @,
                               !.DefaultGatewayIPv6 = IF Len(v6) > 0 THEN v6[1].Gateway ELSE @]]

\* The configuration CreateNetwork stores for options it accepts.
ConfigOf(id, o) ==
    processIPAM([fromLabels(id, o).config EXCEPT !.BridgeName = BridgeNameOf(id, o)],
                o.v4d, o.v6d).config

----------------------------------------------------------------------------
\* newBridgeDriver: config is &configuration{}, every field its zero value.
configuration == [EnableIPTables |-> FALSE, EnableUserlandProxy |-> FALSE]

\* What configure stores in d.config, under d's lock: the configuration given.
Configured == [EnableIPTables : BOOLEAN, EnableUserlandProxy : BOOLEAN]

\* The driver newly made, with the configuration c in d.config.
Fresh(c) ==
    /\ networks = [i \in Keys |-> 0]
    /\ nets = <<>>
    /\ eps = <<>>
    /\ links = <<>>
    /\ dLock = Free
    /\ cfgLock = Free
    /\ nLock = <<>>
    /\ th = [t \in Threads |-> Idle]
    /\ touched = [t \in Threads |-> FALSE]
    /\ ops = 0
    /\ dconfig = c
    /\ rules = {}

Init == Fresh(configuration)

\* Two calls that create the same endpoint of the same network.
SameEndpoint(a, op, nid, eid) ==
    a.op = "CreateEndpoint" /\ op = "CreateEndpoint" /\ a.nid = nid /\ a.eid = eid

InProgress(u) == th[u].pc \notin {"idle", "ret"}

\* What a call records about the state it starts in: whether the registry
\* holds the network and the network the endpoint, whether no other call is
\* running, whether a running call creates the same endpoint.
Begin(t, op, nid, eid) ==
    [Idle EXCEPT !.op = op, !.nid = nid, !.eid = eid,
       !.os = th[t].os + (IF op \in OSContextCalls THEN 1 ELSE 0),
       !.preNet = nid \in NetIds /\ networks[nid] # 0,
       !.preEp = /\ nid \in NetIds /\ networks[nid] # 0
                 /\ eid \in EpIds /\ nets[networks[nid]].endpoints[eid] # 0,
       !.quiet = \A u \in Threads \ {t} : ~InProgress(u),
       !.clash = \E u \in Threads \ {t} : InProgress(u) /\ SameEndpoint(th[u], op, nid, eid)]

\* Thread t starts the call r; the calls that are running record that they
\* no longer run alone.
Start(t, r) ==
    th' = [u \in Threads |->
             IF u = t THEN r
             ELSE IF InProgress(u)
                  THEN [th[u] EXCEPT !.quiet = FALSE,
                                     !.clash = @ \/ SameEndpoint(th[u], r.op, r.nid, r.eid)]
                  ELSE th[u]]

----------------------------------------------------------------------------
\* Lock operations shared by the calls.

\* d.Lock()
LockD(t, from, to) ==
    /\ At(t, from)
    /\ dLock = Free
    /\ dLock' = t
    /\ Set(t, [th[t] EXCEPT !.pc = to])
    /\ UNCHANGED <<dconfig, rules, networks, nets, eps, links, cfgLock, nLock, touched, ops>>

\* n.Lock() on the network the thread holds a reference to.
LockN(t, from, to) ==
    /\ At(t, from)
    /\ nLock[th[t].n] = Free
    /\ nLock' = [nLock EXCEPT ![th[t].n] = t]
    /\ Set(t, [th[t] EXCEPT !.pc = to])
    /\ UNCHANGED <<dconfig, rules, networks, nets, eps, links, dLock, cfgLock, touched, ops>>

----------------------------------------------------------------------------
\* CreateNetwork.

\* A CreateNetwork call with options from the given set.
StartCreateNetworkOf(t, ids, options) ==
    /\ Ready(t)
    /\ ops < MaxOps
    /\ ops' = ops + 1
    /\ \E id \in ids, o \in options :
         Start(t, [Begin(t, "CreateNetwork", id, "") EXCEPT !.opt = o, !.pc = "cn_start"])
    /\ touched' = [touched EXCEPT ![t] = FALSE]
    /\ UNCHANGED <<dconfig, rules, networks, nets, eps, links, dLock, cfgLock, nLock>>

StartCreateNetwork(t, options) == StartCreateNetworkOf(t, NetIds, options)

CallCreateNetwork(t) == StartCreateNetwork(t, NetOptions)

\* Fault variant of CN_CheckV4: the IPv4 data is not looked at.
CN_CheckV4_Skip(t) ==
    /\ At(t, "cn_start")
    /\ Set(t, [th[t] EXCEPT !.pc = "cn_lockd"])
    /\ UNCHANGED <<dconfig, rules, networks, nets, eps, links, dLock, cfgLock, nLock, ops>>
    /\ Track(t)

\* CreateNetwork's first check: the IPv4 data is not empty and its first pool
\* is not the default route.
CN_CheckV4(t) ==
    /\ At(t, "cn_start")
    /\ IF Len(th[t].opt.v4d) = 0 \/ th[t].opt.v4d[1].Pool = DefaultRoute
       THEN Return(t, BadRequest)
       ELSE Set(t, [th[t] EXCEPT !.pc = "cn_lockd"])
    /\ UNCHANGED <<dconfig, rules, networks, nets, eps, links, dLock, cfgLock, nLock, ops>>
    /\ Track(t)

CN_LockD(t) == LockD(t, "cn_lockd", "cn_dup")

\* Fault variant of CN_CheckDup: the registry is read and the answer dropped.
CN_CheckDup_Skip(t) ==
    /\ At(t, "cn_dup")
    /\ dLock' = Free
    /\ Set(t, [th[t] EXCEPT !.pc = "cn_parse"])
    /\ UNCHANGED <<dconfig, rules, networks, nets, eps, links, cfgLock, nLock, ops>>
    /\ Track(t)

\* Fault variant of CN_CheckDup: the return for an id the registry holds
\* keeps d's lock.
CN_CheckDup_Locked(t) ==
    /\ At(t, "cn_dup")
    /\ IF networks[th[t].nid] # 0
       THEN Return(t, Forbidden) /\ UNCHANGED dLock
       ELSE Set(t, [th[t] EXCEPT !.pc = "cn_parse"]) /\ dLock' = Free
    /\ UNCHANGED <<dconfig, rules, networks, nets, eps, links, cfgLock, nLock, ops>>
    /\ Track(t)

\* The duplicate-id check, under d's lock.
CN_CheckDup(t) ==
    /\ At(t, "cn_dup")
    /\ dLock' = Free
    /\ IF networks[th[t].nid] # 0
       THEN Return(t, Forbidden)
       ELSE Set(t, [th[t] EXCEPT !.pc = "cn_parse"])
    /\ UNCHANGED <<dconfig, rules, networks, nets, eps, links, cfgLock, nLock, ops>>
    /\ Track(t)

\* bridgeInterfaceExists: the probe's answer for a name.
\* "error" when the lookup fails or the link is no bridge.
ProbeOutcomes(name) ==
    LET i == LinkByName(name) IN
    {"error"} \cup (IF i = 0 THEN {"absent"}
                    ELSE IF links[i].kind = "bridge" THEN {"exists"} ELSE {})

\* parseNetworkOptions (validation, default name, existence probe) and
\* processIPAM.
CN_Parse(t) ==
    /\ At(t, "cn_parse")
    /\ LET o == th[t].opt
           parsed == fromLabels(th[t].nid, o)
           name == BridgeNameOf(th[t].nid, o)
           ipam == processIPAM(parsed.config, o.v4d, o.v6d)
       IN
       IF parsed.err # NoErr THEN Return(t, parsed.err)
       ELSE IF Validate(parsed.config) # NoErr THEN Return(t, Validate(parsed.config))
       ELSE IF o.br = "" /\ ~SliceInRange(th[t].nid)
       THEN Set(t, [th[t] EXCEPT !.pc = "panic"])
       ELSE \E r \in ProbeOutcomes(name) :
              CASE r = "error" ->
                     Set(t, Returned([th[t] EXCEPT !.kfail =
                                        ~(LinkByName(name) # 0
                                          /\ links[LinkByName(name)].kind # "bridge")],
                                     Unclassified))
                [] r = "exists" -> Return(t, Forbidden)
                [] OTHER ->
                     IF ipam.err # NoErr THEN Return(t, ipam.err)
                     ELSE Set(t, [th[t] EXCEPT !.pc = "cn_cfglock", !.br = name])
    /\ UNCHANGED <<dconfig, rules, networks, nets, eps, links, dLock, cfgLock, nLock, ops>>
    /\ Track(t)

\* d.configNetwork.Lock(), and createNetwork's defer osl.InitOSContext()().
CN_LockCfg(t) ==
    /\ At(t, "cn_cfglock")
    /\ cfgLock = Free
    /\ cfgLock' = t
    /\ Set(t, [th[t] EXCEPT !.pc = "cn_lockd2", !.os = @ + 1])
    /\ UNCHANGED <<dconfig, rules, networks, nets, eps, links, dLock, nLock, touched, ops>>

CN_LockD2(t) == LockD(t, "cn_lockd2", "cn_nlh")

\* createNetwork: the netlink handle is initialised under d's lock.
CN_InitHandle(t) ==
    /\ At(t, "cn_nlh")
    /\ dLock' = Free
    /\ Set(t, [th[t] EXCEPT !.pc = "cn_newif"])
    /\ UNCHANGED <<dconfig, rules, networks, nets, eps, links, cfgLock, nLock, ops>>
    /\ Track(t)

\* newInterface: look the bridge up by name; a failed lookup leaves Link nil,
\* a link that is no bridge is an error.
CN_NewInterface(t) ==
    /\ At(t, "cn_newif")
    /\ LET i == LinkByName(th[t].br) IN
       \E found \in (IF i = 0 THEN {FALSE} ELSE BOOLEAN) :
         IF found /\ links[i].kind # "bridge"
         THEN Set(t, [th[t] EXCEPT !.pc = "cn_exit", !.os = @ - 1, !.err = Unclassified])
         ELSE Set(t, [th[t] EXCEPT !.pc = "cn_lockd3",
                                   !.blink = IF found THEN i ELSE 0,
                                   !.kfail = @ \/ (i # 0 /\ ~found)])
    /\ UNCHANGED <<dconfig, rules, networks, nets, eps, links, dLock, cfgLock, nLock, ops>>
    /\ Track(t)

CN_LockD3(t) == LockD(t, "cn_lockd3", "cn_insert")

\* The steps createNetwork queues: the device is created only when
\* newInterface found none; bringing it up is always last.
\* Fault variant of QueuedSteps: setupDevice is queued whatever was found.
QueuedSteps_Always(exists) == <<"setupDevice", "setupDeviceUp">>

QueuedSteps(exists) ==
    IF exists THEN <<"setupDeviceUp">> ELSE <<"setupDevice", "setupDeviceUp">>

\* bridgeSetup.apply: the position after a step returned e, with q the
\* steps from that step on.
AfterStep(q, e) ==
    IF e # NoErr \/ Len(q) <= 1 THEN "cn_defer" ELSE q[2]

\* Fault variant of CN_Insert: the network object gets no id.
CN_Insert_NoId(t) ==
    /\ At(t, "cn_insert")
    /\ dLock' = Free
    /\ nets' = Append(nets, [id |-> NoNet,
                             config |-> ConfigOf(th[t].nid, th[t].opt),
                             link |-> th[t].blink,
                             endpoints |-> [e \in EpIds |-> 0],
                             gone |-> FALSE, iptCleanFuncs |-> <<>>])
    /\ nLock' = Append(nLock, Free)
    /\ networks' = [networks EXCEPT ![th[t].nid] = Len(nets) + 1]
    /\ LET q == QueuedSteps(th[t].blink # 0) IN
       Set(t, [th[t] EXCEPT !.pc = q[1], !.queue = q, !.n = Len(nets) + 1,
                            !.inserted = TRUE])
    /\ UNCHANGED <<dconfig, rules, eps, links, cfgLock, ops>>
    /\ Track(t)

\* d.networks[config.ID] = network, under d's lock; then the steps are queued.
CN_Insert(t) ==
    /\ At(t, "cn_insert")
    /\ dLock' = Free
    /\ nets' = Append(nets, [id |-> th[t].nid,
                             config |-> ConfigOf(th[t].nid, th[t].opt),
                             link |-> th[t].blink,
                             endpoints |-> [e \in EpIds |-> 0],
                             gone |-> FALSE, iptCleanFuncs |-> <<>>])
    /\ nLock' = Append(nLock, Free)
    /\ networks' = [networks EXCEPT ![th[t].nid] = Len(nets) + 1]
    /\ LET q == QueuedSteps(th[t].blink # 0) IN
       Set(t, [th[t] EXCEPT !.pc = q[1], !.queue = q, !.n = Len(nets) + 1,
                            !.inserted = TRUE])
    /\ UNCHANGED <<dconfig, rules, eps, links, cfgLock, ops>>
    /\ Track(t)

\* setupDevice, first half: nlh.LinkAdd of the bridge.
SetupDevice(t) ==
    /\ At(t, "setupDevice")
    /\ \E ok \in (IF LinkByName(th[t].br) = 0 THEN BOOLEAN ELSE {FALSE}) :
         IF ok
         THEN /\ links' = Added("bridge", th[t].br, "")
              /\ nets' = [nets EXCEPT ![th[t].n].link = Len(links) + 1]
              /\ Set(t, [th[t] EXCEPT !.pc = "setupDeviceMac", !.made = Len(links) + 1])
         ELSE /\ Set(t, [th[t] EXCEPT !.pc = AfterStep(th[t].queue, Unclassified),
                                      !.err = Unclassified, !.kfail = TRUE])
              /\ UNCHANGED <<links, nets>>
    /\ UNCHANGED <<dconfig, rules, networks, eps, dLock, cfgLock, nLock, ops>>
    /\ Track(t)

\* setupDevice, second half: nlh.LinkSetHardwareAddr (skipped on old kernels).
SetupDeviceMac(t) ==
    /\ At(t, "setupDeviceMac")
    /\ \E ok \in BOOLEAN :
         LET e == IF ok THEN NoErr ELSE Unclassified IN
         Set(t, [th[t] EXCEPT !.pc = AfterStep(th[t].queue, e),
                              !.queue = IF ok THEN Tail(@) ELSE @,
                              !.err = e, !.kfail = @ \/ ~ok])
    /\ UNCHANGED <<dconfig, rules, networks, nets, eps, links, dLock, cfgLock, nLock, ops>>
    /\ Track(t)

\* setupDeviceUp, first half: nlh.LinkSetUp(i.Link).
SetupDeviceUp(t) ==
    /\ At(t, "setupDeviceUp")
    /\ LET i == nets[th[t].n].link IN
       \E ok \in (IF Alive(i) THEN BOOLEAN ELSE {FALSE}) :
         IF ok
         THEN /\ links' = [links EXCEPT ![i].up = TRUE]
              /\ Set(t, [th[t] EXCEPT !.pc = "setupDeviceUpRefresh"])
         ELSE /\ Set(t, [th[t] EXCEPT !.pc = AfterStep(th[t].queue, Unclassified),
                                      !.err = Unclassified, !.kfail = TRUE])
              /\ UNCHANGED links
    /\ UNCHANGED <<dconfig, rules, networks, nets, eps, dLock, cfgLock, nLock, ops>>
    /\ Track(t)

\* setupDeviceUp, second half: the link is looked up again by name; a failure
\* is ignored.
SetupDeviceUpRefresh(t) ==
    /\ At(t, "setupDeviceUpRefresh")
    /\ LET i == LinkByName(th[t].br) IN
       \E found \in (IF i = 0 THEN {FALSE} ELSE BOOLEAN) :
         /\ nets' = IF found THEN [nets EXCEPT ![th[t].n].link = i] ELSE nets
         /\ Set(t, [th[t] EXCEPT !.pc = AfterStep(th[t].queue, NoErr),
                                 !.queue = Tail(@),
                                 !.kfail = @ \/ (i # 0 /\ ~found)])
    /\ UNCHANGED <<dconfig, rules, networks, eps, links, dLock, cfgLock, nLock, ops>>
    /\ Track(t)

\* setupDisableIPv6, first half: the parameter of the bridge's name is read;
\* an error is returned when the read fails and when it reads 1.
SetupDisableIPv6(t) ==
    /\ At(t, "setupDisableIPv6")
    /\ LET i == LinkByName(th[t].br) IN
       \E ok \in (IF i = 0 THEN {FALSE} ELSE BOOLEAN) :
         LET enabled == ok /\ getSysBoolParam(links[i].disable_ipv6) IN
         IF enabled \/ ~ok
         THEN Set(t, [th[t] EXCEPT !.pc = AfterStep(th[t].queue, Unclassified),
                                   !.err = Unclassified, !.kfail = @ \/ ~ok])
         ELSE Set(t, [th[t] EXCEPT !.pc = "setupDisableIPv6Set"])
    /\ UNCHANGED <<dconfig, rules, networks, nets, eps, links, dLock, cfgLock, nLock, ops>>
    /\ Track(t)

\* setupDisableIPv6, second half: setSysBoolParam(path, true).
SetupDisableIPv6Set(t) ==
    /\ At(t, "setupDisableIPv6Set")
    /\ LET i == LinkByName(th[t].br) IN
       \E ok \in (IF i = 0 THEN {FALSE} ELSE BOOLEAN) :
         LET e == IF ok THEN NoErr ELSE Unclassified IN
         /\ links' = IF ok THEN [links EXCEPT ![i].disable_ipv6 = setSysBoolParam(TRUE)]
                     ELSE links
         /\ Set(t, [th[t] EXCEPT !.pc = AfterStep(th[t].queue, e),
                                 !.queue = IF ok THEN Tail(@) ELSE @,
                                 !.err = e, !.kfail = @ \/ ~ok])
    /\ UNCHANGED <<dconfig, rules, networks, nets, eps, dLock, cfgLock, nLock, ops>>
    /\ Track(t)

\* iptables.ProgramRule(table, chain, action, rule): the rule of the bridge is
\* put in, or taken out, unless it is already so.
ProgramRule(insert, bridge) ==
    IF insert THEN rules \cup {bridge} ELSE rules \ {bridge}

\* n.setupIPTables: d.config is read under d's lock; with EnableIPTables the
\* rule of config.BridgeName is put in and the closure that takes it out is
\* registered on the network.
SetupIPTables(t) ==
    /\ At(t, "setupIPTables")
    /\ dLock = Free
    /\ IF ~dconfig.EnableIPTables
       THEN /\ Set(t, [th[t] EXCEPT !.pc = AfterStep(th[t].queue, Unclassified),
                                    !.err = Unclassified])
            /\ UNCHANGED <<rules, nets>>
       ELSE \E ok \in BOOLEAN :
              LET e == IF ok THEN NoErr ELSE Unclassified IN
              /\ rules' = IF ok THEN ProgramRule(TRUE, th[t].br) ELSE rules
              /\ nets' = IF ok
                         THEN [nets EXCEPT ![th[t].n].iptCleanFuncs = Append(@, th[t].br)]
                         ELSE nets
              /\ Set(t, [th[t] EXCEPT !.pc = AfterStep(th[t].queue, e),
                                      !.queue = IF ok THEN Tail(@) ELSE @,
                                      !.err = e, !.kfail = @ \/ ~ok])
    /\ UNCHANGED <<dconfig, networks, eps, links, dLock, cfgLock, nLock, ops>>
    /\ Track(t)

\* createNetwork's deferred function: on an error the registry entry is
\* deleted, under d's lock.
CN_Defer(t) ==
    /\ At(t, "cn_defer")
    /\ IF th[t].err # NoErr
       THEN /\ dLock = Free
            /\ dLock' = t
            /\ Set(t, [th[t] EXCEPT !.pc = "cn_rollback"])
       ELSE /\ Set(t, [th[t] EXCEPT !.pc = "cn_exit", !.os = @ - 1])
            /\ UNCHANGED dLock
    /\ UNCHANGED <<dconfig, rules, networks, nets, eps, links, cfgLock, nLock, touched, ops>>

\* Fault variant of CN_Rollback: the entry is left in the registry.
CN_Rollback_Keep(t) ==
    /\ At(t, "cn_rollback")
    /\ dLock' = Free
    /\ Set(t, [th[t] EXCEPT !.pc = "cn_exit", !.os = @ - 1])
    /\ UNCHANGED <<dconfig, rules, networks, nets, eps, links, cfgLock, nLock, ops>>
    /\ Track(t)

CN_Rollback(t) ==
    /\ At(t, "cn_rollback")
    /\ networks' = [networks EXCEPT ![th[t].nid] = 0]
    /\ dLock' = Free
    /\ Set(t, [th[t] EXCEPT !.pc = "cn_exit", !.os = @ - 1])
    /\ UNCHANGED <<dconfig, rules, nets, eps, links, cfgLock, nLock, ops>>
    /\ Track(t)

\* Fault variant of CN_Exit: createNetwork's error is dropped.
CN_Exit_Nil(t) ==
    /\ At(t, "cn_exit")
    /\ cfgLock' = Free
    /\ Return(t, NoErr)
    /\ UNCHANGED <<dconfig, rules, networks, nets, eps, links, dLock, nLock, touched, ops>>

\* CreateNetwork's deferred d.configNetwork.Unlock(), and the return.
CN_Exit(t) ==
    /\ At(t, "cn_exit")
    /\ cfgLock' = Free
    /\ Return(t, th[t].err)
    /\ UNCHANGED <<dconfig, rules, networks, nets, eps, links, dLock, nLock, touched, ops>>

CreateNetworkSteps(t) ==
    \/ CN_CheckV4(t)
    \/ CN_LockD(t)
    \/ CN_CheckDup(t)
    \/ CN_Parse(t)
    \/ CN_LockCfg(t)
    \/ CN_LockD2(t)
    \/ CN_InitHandle(t)
    \/ CN_NewInterface(t)
    \/ CN_LockD3(t)
    \/ CN_Insert(t)
    \/ SetupDevice(t)
    \/ SetupDeviceMac(t)
    \/ SetupDeviceUp(t)
    \/ SetupDeviceUpRefresh(t)
    \/ CN_Defer(t)
    \/ CN_Rollback(t)
    \/ CN_Exit(t)

CreateNetwork(t) == CallCreateNetwork(t) \/ CreateNetworkSteps(t)

----------------------------------------------------------------------------
\* DeleteNetwork.

CallDeleteNetwork(t) ==
    /\ Ready(t)
    /\ ops < MaxOps
    /\ ops' = ops + 1
    /\ \E id \in NetIds :
         Start(t, [Begin(t, "DeleteNetwork", id, "") EXCEPT !.pc = "dn_cfglock"])
    /\ touched' = [touched EXCEPT ![t] = FALSE]
    /\ UNCHANGED <<dconfig, rules, networks, nets, eps, links, dLock, cfgLock, nLock>>

\* d.configNetwork.Lock(), and deleteNetwork's defer osl.InitOSContext()().
DN_LockCfg(t) ==
    /\ At(t, "dn_cfglock")
    /\ cfgLock = Free
    /\ cfgLock' = t
    /\ Set(t, [th[t] EXCEPT !.pc = "dn_lockd", !.os = @ + 1])
    /\ UNCHANGED <<dconfig, rules, networks, nets, eps, links, dLock, nLock, touched, ops>>

DN_LockD(t) == LockD(t, "dn_lockd", "dn_get")

\* Fault variant of DN_Get: deleting an unknown id is reported as done.
DN_Get_Idempotent(t) ==
    /\ At(t, "dn_get")
    /\ dLock' = Free
    /\ IF networks[th[t].nid] = 0
       THEN Set(t, [th[t] EXCEPT !.pc = "dn_exit", !.os = @ - 1, !.res = NoErr])
       ELSE Set(t, [th[t] EXCEPT !.pc = "dn_lockn", !.n = networks[th[t].nid]])
    /\ UNCHANGED <<dconfig, rules, networks, nets, eps, links, cfgLock, nLock, ops>>
    /\ Track(t)

\* Fault variant of DN_Get: the return for an unknown id keeps the OS
\* execution context.
DN_Get_Kept(t) ==
    /\ At(t, "dn_get")
    /\ dLock' = Free
    /\ IF networks[th[t].nid] = 0
       THEN Set(t, [th[t] EXCEPT !.pc = "dn_exit", !.res = Maskable])
       ELSE Set(t, [th[t] EXCEPT !.pc = "dn_lockn", !.n = networks[th[t].nid]])
    /\ UNCHANGED <<dconfig, rules, networks, nets, eps, links, cfgLock, nLock, ops>>
    /\ Track(t)

\* deleteNetwork: n, ok := d.networks[nid], under d's lock.
DN_Get(t) ==
    /\ At(t, "dn_get")
    /\ dLock' = Free
    /\ IF networks[th[t].nid] = 0
       THEN Set(t, [th[t] EXCEPT !.pc = "dn_exit", !.os = @ - 1, !.res = Maskable])
       ELSE Set(t, [th[t] EXCEPT !.pc = "dn_lockn", !.n = networks[th[t].nid]])
    /\ UNCHANGED <<dconfig, rules, networks, nets, eps, links, cfgLock, nLock, ops>>
    /\ Track(t)

DN_LockN(t) == LockN(t, "dn_lockn", "dn_config")

\* config := n.config, under n's lock.
DN_Config(t) ==
    /\ At(t, "dn_config")
    /\ nLock' = [nLock EXCEPT ![th[t].n] = Free]
    /\ Set(t, [th[t] EXCEPT !.pc = "dn_eps"])
    /\ UNCHANGED <<dconfig, rules, networks, nets, eps, links, dLock, cfgLock, ops>>
    /\ Track(t)

\* The loop over n.endpoints (read without n's lock): the next endpoint's
\* link is looked up by the endpoint's srcName; after the last, d is locked.
DN_EpLookup(t) ==
    /\ At(t, "dn_eps")
    /\ LET todo == {e \in EpIds : nets[th[t].n].endpoints[e] # 0} \ th[t].visited IN
       IF todo = {}
       THEN /\ dLock = Free
            /\ dLock' = t
            /\ Set(t, [th[t] EXCEPT !.pc = "dn_remove", !.visited = {}])
       ELSE /\ \E e \in todo :
                 LET i == LinkByName(eps[nets[th[t].n].endpoints[e]].srcName) IN
                 \E found \in (IF i = 0 THEN {FALSE} ELSE BOOLEAN) :
                   Set(t, [th[t] EXCEPT !.visited = @ \cup {e},
                                        !.link = IF found THEN i ELSE 0,
                                        !.pc = IF found THEN "dn_epdel" ELSE "dn_eps",
                                        !.kfail = @ \/ (i # 0 /\ ~found)])
            /\ UNCHANGED dLock
    /\ UNCHANGED <<dconfig, rules, networks, nets, eps, links, cfgLock, nLock, touched, ops>>

\* nlh.LinkDel of the endpoint's link; a failure is logged.
DN_EpDel(t) ==
    /\ At(t, "dn_epdel")
    /\ \E ok \in (IF Alive(th[t].link) THEN BOOLEAN ELSE {FALSE}) :
         /\ links' = IF ok THEN Deleted(th[t].link) ELSE links
         /\ Set(t, [th[t] EXCEPT !.pc = "dn_eps", !.link = 0, !.kfail = @ \/ ~ok])
    /\ UNCHANGED <<dconfig, rules, networks, nets, eps, dLock, cfgLock, nLock, ops>>
    /\ Track(t)

\* delete(d.networks, nid), under d's lock.  History: the object is marked as
\* one that DeleteNetwork took out of the registry.
DN_Remove(t) ==
    /\ At(t, "dn_remove")
    /\ dLock' = Free
    /\ networks' = [networks EXCEPT ![th[t].nid] = 0]
    /\ nets' = [nets EXCEPT ![th[t].n].gone = TRUE]
    /\ Set(t, [th[t] EXCEPT !.pc = "dn_brdel"])
    /\ UNCHANGED <<dconfig, rules, eps, links, cfgLock, nLock, ops>>
    /\ Track(t)

\* Fault variant of DN_DelBridge: the bridge is not deleted.
DN_DelBridge_Skip(t) ==
    /\ At(t, "dn_brdel")
    /\ Set(t, [th[t] EXCEPT !.pc = "dn_defer"])
    /\ UNCHANGED <<dconfig, rules, networks, nets, eps, links, dLock, cfgLock, nLock, ops>>
    /\ Track(t)

\* nlh.LinkDel(n.bridge.Link); a failure is logged.
DN_DelBridge(t) ==
    /\ At(t, "dn_brdel")
    /\ LET i == nets[th[t].n].link IN
       \E ok \in (IF Alive(i) THEN BOOLEAN ELSE {FALSE}) :
         /\ links' = IF ok THEN Deleted(i) ELSE links
         /\ Set(t, [th[t] EXCEPT !.pc = "dn_defer", !.kfail = @ \/ ~ok])
    /\ UNCHANGED <<dconfig, rules, networks, nets, eps, dLock, cfgLock, nLock, ops>>
    /\ Track(t)

\* deleteNetwork's deferred function: on an error the network is put back
\* unless the id was taken.  (No statement of deleteNetwork assigns err.)
DN_Defer(t) ==
    /\ At(t, "dn_defer")
    /\ IF th[t].err # NoErr
       THEN /\ dLock = Free
            /\ networks' = IF networks[th[t].nid] = 0
                           THEN [networks EXCEPT ![th[t].nid] = th[t].n]
                           ELSE networks
       ELSE UNCHANGED networks
    /\ Set(t, [th[t] EXCEPT !.pc = "dn_exit", !.os = @ - 1, !.res = th[t].err])
    /\ UNCHANGED <<dconfig, rules, nets, eps, links, dLock, cfgLock, nLock, ops>>
    /\ Track(t)

\* DeleteNetwork's deferred d.configNetwork.Unlock(), and the return.
DN_Exit(t) ==
    /\ At(t, "dn_exit")
    /\ cfgLock' = Free
    /\ Return(t, th[t].res)
    /\ UNCHANGED <<dconfig, rules, networks, nets, eps, links, dLock, nLock, touched, ops>>

\* DeleteNetwork's steps on a network without endpoints.
DeleteNetworkSteps(t) ==
    \/ DN_LockCfg(t)
    \/ DN_LockD(t)
    \/ DN_Get(t)
    \/ DN_LockN(t)
    \/ DN_Config(t)
    \/ DN_EpLookup(t)
    \/ DN_Remove(t)
    \/ DN_DelBridge(t)
    \/ DN_Defer(t)
    \/ DN_Exit(t)

DeleteNetwork(t) == CallDeleteNetwork(t) \/ DeleteNetworkSteps(t)

----------------------------------------------------------------------------
\* getNetwork and getEndpoint, as CreateEndpoint runs them.

\* What the caller of getNetwork returns for getNetwork's error: Leave wraps
\* it in types.InternalMaskableErrorf, the others pass it on.
GetNetworkError(op, e) == IF op = "Leave" THEN Maskable ELSE e

\* getNetwork: an empty id is a bad request.
GN_CheckId(t) ==
    /\ At(t, "gn_start")
    /\ IF th[t].nid = NoNet
       THEN Return(t, GetNetworkError(th[t].op, BadRequest))
       ELSE Set(t, [th[t] EXCEPT !.pc = "gn_lockd"])
    /\ UNCHANGED <<dconfig, rules, networks, nets, eps, links, dLock, cfgLock, nLock, ops>>
    /\ Track(t)

GN_LockD(t) == LockD(t, "gn_lockd", "gn_read")

\* Fault variant of GN_Read: d's lock is kept.
GN_Read_Held(t) ==
    /\ At(t, "gn_read")
    /\ IF networks[th[t].nid] = 0
       THEN Return(t, GetNetworkError(th[t].op, NotFound))
       ELSE Set(t, [th[t] EXCEPT !.pc = "gn_lockn", !.n = networks[th[t].nid]])
    /\ UNCHANGED <<dconfig, rules, networks, nets, eps, links, dLock, cfgLock, nLock, ops>>
    /\ Track(t)

\* getNetwork: n, ok := d.networks[id], under d's lock.
GN_Read(t) ==
    /\ At(t, "gn_read")
    /\ dLock' = Free
    /\ IF networks[th[t].nid] = 0
       THEN Return(t, GetNetworkError(th[t].op, NotFound))
       ELSE Set(t, [th[t] EXCEPT !.pc = "gn_lockn", !.n = networks[th[t].nid]])
    /\ UNCHANGED <<dconfig, rules, networks, nets, eps, links, cfgLock, nLock, ops>>
    /\ Track(t)

GN_LockN(t) == LockN(t, "gn_lockn", "gn_check")

\* getNetwork's sanity check n.id == id, under n's lock.
GN_Check(t) ==
    /\ At(t, "gn_check")
    /\ nLock' = [nLock EXCEPT ![th[t].n] = Free]
    /\ IF nets[th[t].n].id # th[t].nid
       THEN Return(t, GetNetworkError(th[t].op, NotFound))
       ELSE Set(t, [th[t] EXCEPT !.pc = "ge_lockn"])
    /\ UNCHANGED <<dconfig, rules, networks, nets, eps, links, dLock, cfgLock, ops>>
    /\ Track(t)

GE_LockN(t) == LockN(t, "ge_lockn", "ge_read")

\* parseEndpointOptions: no configuration for a nil map; a MacAddress label
\* that is no net.HardwareAddr is an invalid endpoint configuration.
parseEndpointOptions(epo) ==
    IF epo.nil THEN [err |-> NoErr, config |-> [nil |-> TRUE, MacAddress |-> NilIP]]
    ELSE IF epo.key = "absent" THEN [err |-> NoErr, config |-> [nil |-> FALSE, MacAddress |-> NilIP]]
    ELSE IF epo.key = "hw" THEN [err |-> NoErr, config |-> [nil |-> FALSE, MacAddress |-> epo.mac]]
    ELSE [err |-> BadRequest, config |-> [nil |-> TRUE, MacAddress |-> NilIP]]

\* Fault variant of CE_CheckDup: an endpoint found is not an error.
CE_CheckDup_Overwrite(t) ==
    /\ At(t, "ge_read")
    /\ th[t].op = "CreateEndpoint"
    /\ nLock' = [nLock EXCEPT ![th[t].n] = Free]
    /\ LET parsed == parseEndpointOptions(th[t].epo) IN
       IF th[t].eid = "" THEN Return(t, BadRequest)
       ELSE IF parsed.err # NoErr THEN Return(t, parsed.err)
       ELSE Set(t, [th[t] EXCEPT !.pc = "ce_lockn", !.epConfig = parsed.config])
    /\ UNCHANGED <<dconfig, rules, networks, nets, eps, links, dLock, cfgLock, ops>>
    /\ Track(t)

\* Fault variant of CE_CheckDup: the endpoint options are taken unparsed.
CE_CheckDup_Unparsed(t) ==
    /\ At(t, "ge_read")
    /\ th[t].op = "CreateEndpoint"
    /\ nLock' = [nLock EXCEPT ![th[t].n] = Free]
    /\ IF th[t].eid = "" THEN Return(t, BadRequest)
       ELSE IF nets[th[t].n].endpoints[th[t].eid] # 0 THEN Return(t, Forbidden)
       ELSE Set(t, [th[t] EXCEPT !.pc = "ce_lockn"])
    /\ UNCHANGED <<dconfig, rules, networks, nets, eps, links, dLock, cfgLock, ops>>
    /\ Track(t)

\* n.getEndpoint(eid) under n's lock (an empty id is a bad request), what
\* CreateEndpoint does with the answer (an endpoint found is
\* ErrEndpointExists), and parseEndpointOptions.
CE_CheckDup(t) ==
    /\ At(t, "ge_read")
    /\ th[t].op = "CreateEndpoint"
    /\ nLock' = [nLock EXCEPT ![th[t].n] = Free]
    /\ LET parsed == parseEndpointOptions(th[t].epo) IN
       IF th[t].eid = "" THEN Return(t, BadRequest)
       ELSE IF nets[th[t].n].endpoints[th[t].eid] # 0 THEN Return(t, Forbidden)
       ELSE IF parsed.err # NoErr THEN Return(t, parsed.err)
       ELSE Set(t, [th[t] EXCEPT !.pc = "ce_lockn", !.epConfig = parsed.config])
    /\ UNCHANGED <<dconfig, rules, networks, nets, eps, links, dLock, cfgLock, ops>>
    /\ Track(t)

----------------------------------------------------------------------------
\* CreateEndpoint.

\* A CreateEndpoint call with arguments from the given set.
StartCreateEndpoint(t, calls) ==
    /\ Ready(t)
    /\ ops < MaxOps
    /\ ops' = ops + 1
    /\ \E c \in calls :
         Start(t, [Begin(t, "CreateEndpoint", c.nid, c.eid)
                     EXCEPT !.ei = c.ei, !.epo = c.epo, !.pc = "ce_start"])
    /\ touched' = [touched EXCEPT ![t] = FALSE]
    /\ UNCHANGED <<dconfig, rules, networks, nets, eps, links, dLock, cfgLock, nLock>>

\* The calls of the endpoint lifecycle: no endpoint options.
EndpointCalls ==
    {[nid |-> nid, eid |-> eid, ei |-> ei, epo |-> NilOptions] :
       nid \in NetIds, eid \in EpIds, ei \in UNION {EndpointInterfaces(e) : e \in EpIds}}

CallCreateEndpoint(t) ==
    StartCreateEndpoint(t, {c \in EndpointCalls : c.ei \in EndpointInterfaces(c.eid)})

\* if ei == nil { return nil, errors.New("invalid interface info") }
CE_CheckInfo(t) ==
    /\ At(t, "ce_start")
    /\ IF th[t].ei.nil
       THEN Return(t, Unclassified)
       ELSE Set(t, [th[t] EXCEPT !.pc = "gn_start"])
    /\ UNCHANGED <<dconfig, rules, networks, nets, eps, links, dLock, cfgLock, nLock, ops>>
    /\ Track(t)

CE_LockN(t) == LockN(t, "ce_lockn", "ce_insert")

\* Fault variant of CE_Insert: the map is rebuilt with the new record alone.
CE_Insert_Sole(t) ==
    /\ At(t, "ce_insert")
    /\ nLock' = [nLock EXCEPT ![th[t].n] = Free]
    /\ eps' = Append(eps, [id |-> th[t].eid, nid |-> th[t].nid, srcName |-> "",
                           addr |-> NilNet, addrv6 |-> NilNet, mac |-> NilIP,
                           config |-> th[t].epConfig])
    /\ nets' = [nets EXCEPT ![th[t].n].endpoints =
                  [e \in EpIds |-> IF e = th[t].eid THEN Len(eps) + 1 ELSE 0]]
    /\ Set(t, [th[t] EXCEPT !.pc = "ce_gen1", !.endpoint = Len(eps) + 1, !.inserted = TRUE])
    /\ UNCHANGED <<dconfig, rules, networks, links, dLock, cfgLock, ops>>
    /\ Track(t)

\* n.endpoints[eid] = endpoint, under n's lock: the placeholder record.
CE_Insert(t) ==
    /\ At(t, "ce_insert")
    /\ nLock' = [nLock EXCEPT ![th[t].n] = Free]
    /\ eps' = Append(eps, [id |-> th[t].eid, nid |-> th[t].nid, srcName |-> "",
                           addr |-> NilNet, addrv6 |-> NilNet, mac |-> NilIP,
                           config |-> th[t].epConfig])
    /\ nets' = [nets EXCEPT ![th[t].n].endpoints[th[t].eid] = Len(eps) + 1]
    /\ Set(t, [th[t] EXCEPT !.pc = "ce_gen1", !.endpoint = Len(eps) + 1, !.inserted = TRUE])
    /\ UNCHANGED <<dconfig, rules, networks, links, dLock, cfgLock, ops>>
    /\ Track(t)

\* The deferred functions CreateEndpoint has registered when it fails at
\* stage k (1: the record; 2: and the host link; 3: and the sandbox link) run
\* last registered first.
FirstDefer(k) ==
    CASE k = 3 -> "ce_undo_sbox"
      [] k = 2 -> "ce_undo_host"
      [] OTHER -> "ce_undo_lockn"

Fail(t, k, e, kernel) ==
    Set(t, [th[t] EXCEPT !.pc = FirstDefer(k), !.err = e, !.kfail = @ \/ kernel])

\* Names some record or local still holds.
InPlay ==
    {th[u].hostIf : u \in Threads} \cup {th[u].sbIf : u \in Threads}
      \cup {eps[j].srcName : j \in 1..Len(eps)}
      \cup UNION {{links[i].name, links[i].peer} : i \in LinkIdx}

\* netutils.GenerateIfaceName: a random name that no link carries.  Names
\* nobody holds are interchangeable, so the lowest stands for them all.
GeneratedNames ==
    LET free == {k \in VethNumbers : Named(VethName(k)) = {}}
        fresh == {k \in free : VethName(k) \notin InPlay}
    IN {VethName(k) : k \in (free \ fresh) \cup {k \in fresh : \A m \in fresh : k <= m}}

CE_GenHostName(t) ==
    /\ At(t, "ce_gen1")
    /\ \/ \E name \in GeneratedNames : Set(t, [th[t] EXCEPT !.pc = "ce_gen2", !.hostIf = name])
       \/ Fail(t, 1, Unclassified, TRUE)
    /\ UNCHANGED <<dconfig, rules, networks, nets, eps, links, dLock, cfgLock, nLock, ops>>
    /\ Track(t)

CE_GenSboxName(t) ==
    /\ At(t, "ce_gen2")
    /\ \/ \E name \in GeneratedNames : Set(t, [th[t] EXCEPT !.pc = "ce_linkadd", !.sbIf = name])
       \/ Fail(t, 1, Unclassified, TRUE)
    /\ UNCHANGED <<dconfig, rules, networks, nets, eps, links, dLock, cfgLock, nLock, ops>>
    /\ Track(t)

\* nlh.LinkAdd(veth): the pair.
CE_LinkAdd(t) ==
    /\ At(t, "ce_linkadd")
    /\ LET can == /\ Named(th[t].hostIf) = {}
                  /\ Named(th[t].sbIf) = {}
                  /\ th[t].hostIf # th[t].sbIf
       IN \E ok \in (IF can THEN BOOLEAN ELSE {FALSE}) :
            IF ok
            THEN /\ links' = Added("veth", th[t].hostIf, th[t].sbIf)
                 /\ Set(t, [th[t] EXCEPT !.pc = "ce_host", !.made = Len(links) + 1])
            ELSE /\ Fail(t, 1, Internal, TRUE)
                 /\ UNCHANGED links
    /\ UNCHANGED <<dconfig, rules, networks, nets, eps, dLock, cfgLock, nLock, ops>>
    /\ Track(t)

\* host, err := d.nlh.LinkByName(hostIfName); on an error only the record's
\* deferred function is registered.
CE_HostLookup(t) ==
    /\ At(t, "ce_host")
    /\ LET i == LinkByName(th[t].hostIf) IN
       \E found \in (IF i = 0 THEN {FALSE} ELSE BOOLEAN) :
         IF found
         THEN Set(t, [th[t] EXCEPT !.pc = "ce_sbox", !.host = i])
         ELSE Fail(t, 1, Internal, TRUE)
    /\ UNCHANGED <<dconfig, rules, networks, nets, eps, links, dLock, cfgLock, nLock, ops>>
    /\ Track(t)

\* sbox, err := d.nlh.LinkByName(containerIfName)
CE_SboxLookup(t) ==
    /\ At(t, "ce_sbox")
    /\ LET i == LinkByName(th[t].sbIf) IN
       \E found \in (IF i = 0 THEN {FALSE} ELSE BOOLEAN) :
         IF found
         THEN Set(t, [th[t] EXCEPT !.pc = "ce_lockn2", !.sbox = i])
         ELSE Fail(t, 2, Internal, TRUE)
    /\ UNCHANGED <<dconfig, rules, networks, nets, eps, links, dLock, cfgLock, nLock, ops>>
    /\ Track(t)

CE_LockN2(t) == LockN(t, "ce_lockn2", "ce_config")

\* config := n.config, under n's lock; the MTU is set only when it is not 0.
CE_Config(t) ==
    /\ At(t, "ce_config")
    /\ nLock' = [nLock EXCEPT ![th[t].n] = Free]
    /\ Set(t, [th[t] EXCEPT !.pc = IF nets[th[t].n].config.Mtu # 0
                                   THEN "ce_mtu_host" ELSE "ce_bridge"])
    /\ UNCHANGED <<dconfig, rules, networks, nets, eps, links, dLock, cfgLock, ops>>
    /\ Track(t)

\* A kernel call on link i that changes nothing the model keeps.
KernelCall(t, i, from, to, e) ==
    /\ At(t, from)
    /\ \E ok \in (IF Alive(i) THEN BOOLEAN ELSE {FALSE}) :
         IF ok THEN Set(t, [th[t] EXCEPT !.pc = to]) ELSE Fail(t, 3, e, TRUE)
    /\ UNCHANGED <<dconfig, rules, networks, nets, eps, links, dLock, cfgLock, nLock, ops>>
    /\ Track(t)

\* d.nlh.LinkSetMTU(host, config.Mtu)
CE_MtuHost(t) == KernelCall(t, th[t].host, "ce_mtu_host", "ce_mtu_sbox", Internal)

\* d.nlh.LinkSetMTU(sbox, config.Mtu)
CE_MtuSbox(t) == KernelCall(t, th[t].sbox, "ce_mtu_sbox", "ce_bridge", Internal)

\* addToBridge: the host side is looked up by name and its master set to the
\* bridge of the configured name.
CE_AddToBridge(t) ==
    /\ At(t, "ce_bridge")
    /\ LET b == LinkByName(nets[th[t].n].config.BridgeName)
           can == LinkByName(th[t].hostIf) # 0 /\ b # 0 /\ links[b].kind = "bridge"
       IN \E ok \in (IF can THEN BOOLEAN ELSE {FALSE}) :
            IF ok THEN Set(t, [th[t] EXCEPT !.pc = "ce_lockd"])
            ELSE Fail(t, 3, Unclassified, TRUE)
    /\ UNCHANGED <<dconfig, rules, networks, nets, eps, links, dLock, cfgLock, nLock, ops>>
    /\ Track(t)

CE_LockD(t) == LockD(t, "ce_lockd", "ce_proxy")

\* Fault variant of CE_Proxy: hairpin mode is set whatever the configuration.
CE_Proxy_Always(t) ==
    /\ At(t, "ce_proxy")
    /\ dLock' = Free
    /\ Set(t, [th[t] EXCEPT !.pc = "ce_hairpin"])
    /\ UNCHANGED <<dconfig, rules, networks, nets, eps, links, cfgLock, nLock, ops>>
    /\ Track(t)

\* en := d.config.EnableUserlandProxy, under d's lock; hairpin mode is set
\* when it is false.
CE_Proxy(t) ==
    /\ At(t, "ce_proxy")
    /\ dLock' = Free
    /\ Set(t, [th[t] EXCEPT !.pc = IF dconfig.EnableUserlandProxy THEN "ce_store" ELSE "ce_hairpin"])
    /\ UNCHANGED <<dconfig, rules, networks, nets, eps, links, cfgLock, nLock, ops>>
    /\ Track(t)

\* setHairpinMode(d.nlh, host, true)
\* setHairpinMode: nil when LinkSetHairpin returns nil; on EINVAL the value is
\* written to the port's hairpin_mode file instead, and the result is that
\* write's; any other error is returned.
setHairpinMode(netlink, sysfs) ==
    CASE netlink = "nil" -> NoErr
      [] netlink = "EINVAL" -> IF sysfs THEN NoErr ELSE Unclassified
      [] OTHER -> Unclassified

CE_Hairpin(t) ==
    /\ At(t, "ce_hairpin")
    /\ LET i == th[t].host IN
       \E netlink \in (IF Alive(i) THEN {"nil", "EINVAL", "error"} ELSE {"error"}),
          sysfs \in BOOLEAN :
         IF setHairpinMode(netlink, sysfs) = NoErr
         THEN /\ links' = [links EXCEPT ![i].hairpin = TRUE]
              /\ Set(t, [th[t] EXCEPT !.pc = "ce_store", !.hp = "set"])
         ELSE /\ Set(t, [th[t] EXCEPT !.pc = FirstDefer(3), !.err = Unclassified,
                                      !.kfail = TRUE, !.hp = "failed"])
              /\ UNCHANGED links
    /\ UNCHANGED <<dconfig, rules, networks, nets, eps, dLock, cfgLock, nLock, ops>>
    /\ Track(t)

\* netutils.GenerateMACFromIP: 02:42 and the four bytes of the address.
GenerateMACFromIP(ip) == <<2, 66>> \o ip

\* Fault variant of electMacAddress: the endpoint options are not looked at.
electMacAddress_Generated(epConfig, ip) == GenerateMACFromIP(ip)

\* electMacAddress: the MAC of the endpoint options when they have one, else
\* the MAC generated from the address.
electMacAddress(epConfig, ip) ==
    IF ~epConfig.nil /\ epConfig.MacAddress # NilIP THEN epConfig.MacAddress
    ELSE GenerateMACFromIP(ip)

\* The record's fields are stored (outside any lock); the MAC is elected
\* when the request has none.  The argument endpoint.addr.IP of the election
\* is evaluated before the call: with a nil address the call stops there,
\* after the four assignments; the deferred functions run with err nil, so
\* only the OS context is given back.
CE_Store(t) ==
    /\ At(t, "ce_store")
    /\ IF th[t].ei.mac = NilIP /\ th[t].ei.addr = NilNet
       THEN /\ eps' = [eps EXCEPT ![th[t].endpoint] =
                         [@ EXCEPT !.srcName = th[t].sbIf,
                                   !.mac = NilIP,
                                   !.addr = NilNet,
                                   !.addrv6 = th[t].ei.v6]]
            /\ Set(t, [th[t] EXCEPT !.pc = "panic", !.os = @ - 1])
       ELSE LET mac == IF th[t].ei.mac = NilIP
                       THEN electMacAddress(th[t].epConfig, th[t].ei.addr.IP)
                       ELSE th[t].ei.mac
            IN /\ eps' = [eps EXCEPT ![th[t].endpoint] =
                            [@ EXCEPT !.srcName = th[t].sbIf,
                                      !.mac = mac,
                                      !.addr = th[t].ei.addr,
                                      !.addrv6 = th[t].ei.v6]]
               /\ Set(t, [th[t] EXCEPT !.pc = "ce_up",
                                       !.out.mac = IF th[t].ei.mac = NilIP THEN mac ELSE NilIP])
    /\ UNCHANGED <<dconfig, rules, networks, nets, links, dLock, cfgLock, nLock, ops>>
    /\ Track(t)

\* d.nlh.LinkSetUp(host)
CE_LinkUp(t) ==
    /\ At(t, "ce_up")
    /\ \E ok \in (IF Alive(th[t].host) THEN BOOLEAN ELSE {FALSE}) :
         IF ok
         THEN /\ links' = [links EXCEPT ![th[t].host].up = TRUE]
              /\ Set(t, [th[t] EXCEPT !.pc = "ce_v6"])
         ELSE /\ Fail(t, 3, Unclassified, TRUE)
              /\ UNCHANGED links
    /\ UNCHANGED <<dconfig, rules, networks, nets, eps, dLock, cfgLock, nLock, ops>>
    /\ Track(t)

\* Fault variant of DeriveIPv6: the MAC is written from offset 8 on.
DeriveIPv6_Offset8(network, mac) ==
    IPNet([j \in 1..Len(network.IP) |->
             IF j > 8 /\ j - 8 <= Len(mac) THEN mac[j - 8] ELSE network.IP[j]],
          network.ones)

\* The self-generated IPv6 address: the network's address with the bytes of
\* the MAC written from offset 10 on, under the network's mask.
DeriveIPv6(network, mac) ==
    IPNet([j \in 1..Len(network.IP) |->
             IF j > 10 /\ j - 10 <= Len(mac) THEN mac[j - 10] ELSE network.IP[j]],
          network.ones)

\* Fault variant of CE_IPv6: a prefix of 80 bits is refused as well.
CE_IPv6_From80(t) ==
    /\ At(t, "ce_v6")
    /\ LET c == nets[th[t].n].config
           e == eps[th[t].endpoint]
       IN
       IF ~(e.addrv6 = NilNet /\ c.EnableIPv6)
       THEN Set(t, [Returned(th[t], NoErr) EXCEPT !.out = th[t].out]) /\ UNCHANGED eps
       ELSE IF c.PoolIPv6.ones >= 80
       THEN Fail(t, 3, Forbidden, FALSE) /\ UNCHANGED eps
       ELSE LET a == DeriveIPv6(c.PoolIPv6, e.mac) IN
            /\ eps' = [eps EXCEPT ![th[t].endpoint].addrv6 = a]
            /\ Set(t, [Returned(th[t], NoErr) EXCEPT !.out = [th[t].out EXCEPT !.v6 = a]])
    /\ UNCHANGED <<dconfig, rules, networks, nets, links, dLock, cfgLock, nLock, ops>>
    /\ Track(t)

\* The IPv6 address is derived when the request carried none and the network
\* has IPv6 enabled; a prefix longer than 80 bits is refused.  Else, and after
\* the derivation, CreateEndpoint returns what it set.
CE_IPv6(t) ==
    /\ At(t, "ce_v6")
    /\ LET c == nets[th[t].n].config
           e == eps[th[t].endpoint]
       IN
       IF ~(e.addrv6 = NilNet /\ c.EnableIPv6)
       THEN Set(t, [Returned(th[t], NoErr) EXCEPT !.out = th[t].out]) /\ UNCHANGED eps
       ELSE IF c.PoolIPv6.ones > 80
       THEN Fail(t, 3, Forbidden, FALSE) /\ UNCHANGED eps
       ELSE LET a == DeriveIPv6(c.PoolIPv6, e.mac) IN
            /\ eps' = [eps EXCEPT ![th[t].endpoint].addrv6 = a]
            /\ Set(t, [Returned(th[t], NoErr) EXCEPT !.out = [th[t].out EXCEPT !.v6 = a]])
    /\ UNCHANGED <<dconfig, rules, networks, nets, links, dLock, cfgLock, nLock, ops>>
    /\ Track(t)

\* Deferred: d.nlh.LinkDel(sbox); a failure is logged.
CE_UndoSbox(t) ==
    /\ At(t, "ce_undo_sbox")
    /\ \E ok \in (IF Alive(th[t].sbox) THEN BOOLEAN ELSE {FALSE}) :
         /\ links' = IF ok THEN Deleted(th[t].sbox) ELSE links
         /\ Set(t, [th[t] EXCEPT !.pc = "ce_undo_host", !.kfail = @ \/ ~ok,
                                 !.refused = @ \/ (Alive(th[t].sbox) /\ ~ok)])
    /\ UNCHANGED <<dconfig, rules, networks, nets, eps, dLock, cfgLock, nLock, ops>>
    /\ Track(t)

\* Deferred: d.nlh.LinkDel(host); a failure is logged.
CE_UndoHost(t) ==
    /\ At(t, "ce_undo_host")
    /\ \E ok \in (IF Alive(th[t].host) THEN BOOLEAN ELSE {FALSE}) :
         /\ links' = IF ok THEN Deleted(th[t].host) ELSE links
         /\ Set(t, [th[t] EXCEPT !.pc = "ce_undo_lockn", !.kfail = @ \/ ~ok,
                                 !.refused = @ \/ (Alive(th[t].host) /\ ~ok)])
    /\ UNCHANGED <<dconfig, rules, networks, nets, eps, dLock, cfgLock, nLock, ops>>
    /\ Track(t)

CE_UndoLockN(t) == LockN(t, "ce_undo_lockn", "ce_undo_record")

\* Deferred: delete(n.endpoints, eid), under n's lock; then the error returns.
CE_UndoRecord(t) ==
    /\ At(t, "ce_undo_record")
    /\ nLock' = [nLock EXCEPT ![th[t].n] = Free]
    /\ nets' = [nets EXCEPT ![th[t].n].endpoints[th[t].eid] = 0]
    /\ Return(t, th[t].err)
    /\ UNCHANGED <<dconfig, rules, networks, eps, links, dLock, cfgLock, ops>>
    /\ Track(t)

CreateEndpointSteps(t) ==
    \/ CE_CheckInfo(t)
    \/ GN_CheckId(t)
    \/ GN_LockD(t)
    \/ GN_Read(t)
    \/ GN_LockN(t)
    \/ GN_Check(t)
    \/ GE_LockN(t)
    \/ CE_CheckDup(t)
    \/ CE_LockN(t)
    \/ CE_Insert(t)
    \/ CE_GenHostName(t)
    \/ CE_GenSboxName(t)
    \/ CE_LinkAdd(t)
    \/ CE_HostLookup(t)
    \/ CE_SboxLookup(t)
    \/ CE_LockN2(t)
    \/ CE_Config(t)
    \/ CE_MtuHost(t)
    \/ CE_MtuSbox(t)
    \/ CE_AddToBridge(t)
    \/ CE_LockD(t)
    \/ CE_Proxy(t)
    \/ CE_Hairpin(t)
    \/ CE_Store(t)
    \/ CE_LinkUp(t)
    \/ CE_IPv6(t)
    \/ CE_UndoSbox(t)
    \/ CE_UndoHost(t)
    \/ CE_UndoLockN(t)
    \/ CE_UndoRecord(t)

CreateEndpoint(t) == CallCreateEndpoint(t) \/ CreateEndpointSteps(t)

----------------------------------------------------------------------------
\* DeleteEndpoint.

\* A call of op with a network id and an endpoint id from the given sets; it
\* starts with getNetwork.
StartLookup(t, op, nids, eids) ==
    /\ Ready(t)
    /\ ops < MaxOps
    /\ ops' = ops + 1
    /\ \E nid \in nids, eid \in eids :
         Start(t, [Begin(t, op, nid, eid) EXCEPT !.pc = "gn_start"])
    /\ touched' = [touched EXCEPT ![t] = FALSE]
    /\ UNCHANGED <<dconfig, rules, networks, nets, eps, links, dLock, cfgLock, nLock>>

\* A DeleteEndpoint call with any ids, the empty ones included.
CallDeleteEndpoint(t) ==
    StartLookup(t, "DeleteEndpoint", NetIds \cup {NoNet}, EpIds \cup {""})

\* n.getEndpoint(eid) under n's lock (an empty id is a bad request), and what
\* DeleteEndpoint does with the answer: no endpoint is EndpointNotFoundError.
DE_Get(t) ==
    /\ At(t, "ge_read")
    /\ th[t].op = "DeleteEndpoint"
    /\ nLock' = [nLock EXCEPT ![th[t].n] = Free]
    /\ IF th[t].eid = "" THEN Return(t, BadRequest)
       ELSE IF nets[th[t].n].endpoints[th[t].eid] = 0 THEN Return(t, NotFound)
       ELSE Set(t, [th[t] EXCEPT !.pc = "de_lockn", !.ep = nets[th[t].n].endpoints[th[t].eid]])
    /\ UNCHANGED <<dconfig, rules, networks, nets, eps, links, dLock, cfgLock, ops>>
    /\ Track(t)

DE_LockN(t) == LockN(t, "de_lockn", "de_remove")

\* Fault variant of DE_Remove: the endpoint stays in the map.
DE_Remove_Keep(t) ==
    /\ At(t, "de_remove")
    /\ nLock' = [nLock EXCEPT ![th[t].n] = Free]
    /\ Set(t, [th[t] EXCEPT !.pc = "de_lookup"])
    /\ UNCHANGED <<dconfig, rules, networks, nets, eps, links, dLock, cfgLock, ops>>
    /\ Track(t)

\* delete(n.endpoints, eid), under n's lock.
DE_Remove(t) ==
    /\ At(t, "de_remove")
    /\ nLock' = [nLock EXCEPT ![th[t].n] = Free]
    /\ nets' = [nets EXCEPT ![th[t].n].endpoints[th[t].eid] = 0]
    /\ Set(t, [th[t] EXCEPT !.pc = "de_lookup"])
    /\ UNCHANGED <<dconfig, rules, networks, eps, links, dLock, cfgLock, ops>>
    /\ Track(t)

\* link, err := d.nlh.LinkByName(ep.srcName), err local to the statement.
DE_Lookup(t) ==
    /\ At(t, "de_lookup")
    /\ LET i == LinkByName(eps[th[t].ep].srcName) IN
       \E found \in (IF i = 0 THEN {FALSE} ELSE BOOLEAN) :
         Set(t, [th[t] EXCEPT !.pc = IF found THEN "de_linkdel" ELSE "de_defer",
                              !.link = IF found THEN i ELSE 0,
                              !.kfail = @ \/ ~found])
    /\ UNCHANGED <<dconfig, rules, networks, nets, eps, links, dLock, cfgLock, nLock, ops>>
    /\ Track(t)

\* d.nlh.LinkDel(link); a failure is logged.
DE_LinkDel(t) ==
    /\ At(t, "de_linkdel")
    /\ \E ok \in (IF Alive(th[t].link) THEN BOOLEAN ELSE {FALSE}) :
         /\ links' = IF ok THEN Deleted(th[t].link) ELSE links
         /\ Set(t, [th[t] EXCEPT !.pc = "de_defer", !.kfail = @ \/ ~ok])
    /\ UNCHANGED <<dconfig, rules, networks, nets, eps, dLock, cfgLock, nLock, ops>>
    /\ Track(t)

\* Fault variant of DE_Defer: the endpoint is put back whatever the slot holds.
DE_Defer_PutBack(t) ==
    /\ At(t, "de_defer")
    /\ nLock[th[t].n] = Free
    /\ nets' = [nets EXCEPT ![th[t].n].endpoints[th[t].eid] = th[t].ep]
    /\ Return(t, NoErr)
    /\ UNCHANGED <<dconfig, rules, networks, eps, links, dLock, cfgLock, nLock, ops>>
    /\ Track(t)

\* return nil, and DeleteEndpoint's deferred function: on an error the
\* endpoint is put back unless the id was taken.  (No statement assigns the
\* err the function reads.)
DE_Defer(t) ==
    /\ At(t, "de_defer")
    /\ IF th[t].err # NoErr
       THEN /\ nLock[th[t].n] = Free
            /\ nets' = IF nets[th[t].n].endpoints[th[t].eid] = 0
                       THEN [nets EXCEPT ![th[t].n].endpoints[th[t].eid] = th[t].ep]
                       ELSE nets
       ELSE UNCHANGED nets
    /\ Return(t, NoErr)
    /\ UNCHANGED <<dconfig, rules, networks, eps, links, dLock, cfgLock, nLock, ops>>
    /\ Track(t)

DeleteEndpointSteps(t) ==
    \/ DE_Get(t)
    \/ DE_LockN(t)
    \/ DE_Remove(t)
    \/ DE_Lookup(t)
    \/ DE_LinkDel(t)
    \/ DE_Defer(t)

----------------------------------------------------------------------------
\* Join, Leave and EndpointInfo.

\* A call of Join, Leave or EndpointInfo with any ids, the empty ones
\* included.
CallLookup(t, op) == StartLookup(t, op, NetIds \cup {NoNet}, EpIds \cup {""})

CallJoin(t) == CallLookup(t, "Join")
CallLeave(t) == CallLookup(t, "Leave")
CallEndpointInfo(t) == CallLookup(t, "EndpointInfo")

\* Fault variant of LK_Get: Leave takes the endpoint out of the map.
LK_Get_Detach(t) ==
    /\ At(t, "ge_read")
    /\ th[t].op \in {"Join", "Leave", "EndpointInfo"}
    /\ nLock' = [nLock EXCEPT ![th[t].n] = Free]
    /\ IF th[t].eid = "" THEN Return(t, BadRequest) /\ UNCHANGED nets
       ELSE IF nets[th[t].n].endpoints[th[t].eid] = 0 THEN Return(t, NotFound) /\ UNCHANGED nets
       ELSE IF th[t].op = "Leave"
       THEN /\ Return(t, NoErr)
            /\ nets' = [nets EXCEPT ![th[t].n].endpoints[th[t].eid] = 0]
       ELSE /\ Set(t, [th[t] EXCEPT !.pc = IF th[t].op = "Join" THEN "jn_reply" ELSE "ei_mac",
                                    !.ep = nets[th[t].n].endpoints[th[t].eid]])
            /\ UNCHANGED nets
    /\ UNCHANGED <<dconfig, rules, networks, eps, links, dLock, cfgLock, ops>>
    /\ Track(t)

\* n.getEndpoint(eid) under n's lock as Join, Leave and EndpointInfo run it: an
\* empty id is a bad request and no endpoint is EndpointNotFoundError.  Leave
\* has nothing more to do.
LK_Get(t) ==
    /\ At(t, "ge_read")
    /\ th[t].op \in {"Join", "Leave", "EndpointInfo"}
    /\ nLock' = [nLock EXCEPT ![th[t].n] = Free]
    /\ IF th[t].eid = "" THEN Return(t, BadRequest)
       ELSE IF nets[th[t].n].endpoints[th[t].eid] = 0 THEN Return(t, NotFound)
       ELSE IF th[t].op = "Leave" THEN Return(t, NoErr)
       ELSE Set(t, [th[t] EXCEPT !.pc = IF th[t].op = "Join" THEN "jn_reply" ELSE "ei_mac",
                                 !.ep = nets[th[t].n].endpoints[th[t].eid]])
    /\ UNCHANGED <<dconfig, rules, networks, nets, eps, links, dLock, cfgLock, ops>>
    /\ Track(t)

\* Fault variant of Join: the gateway service is disabled when either gateway
\* is missing.
Join_EitherMissing(config, srcName) ==
    JoinResponse(srcName,
                 IF config.ContainerIfacePrefix # "" THEN config.ContainerIfacePrefix
                 ELSE defaultContainerVethPrefix,
                 config.DefaultGatewayIPv4, config.DefaultGatewayIPv6,
                 config.DefaultGatewayIPv4 = NilIP \/ config.DefaultGatewayIPv6 = NilIP)

\* The JoinResponse Join builds from the network's configuration and the
\* endpoint's srcName.
Join(config, srcName) ==
    JoinResponse(srcName,
                 IF config.ContainerIfacePrefix # "" THEN config.ContainerIfacePrefix
                 ELSE defaultContainerVethPrefix,
                 config.DefaultGatewayIPv4, config.DefaultGatewayIPv6,
                 config.DefaultGatewayIPv4 = NilIP /\ config.DefaultGatewayIPv6 = NilIP)

\* Join reads network.config and endpoint.srcName, with no lock, and returns.
JN_Reply(t) ==
    /\ At(t, "jn_reply")
    /\ Set(t, [Returned(th[t], NoErr) EXCEPT
                 !.join = Join(nets[th[t].n].config, eps[th[t].ep].srcName)])
    /\ UNCHANGED <<dconfig, rules, networks, nets, eps, links, dLock, cfgLock, nLock, ops>>
    /\ Track(t)

\* EndpointInfo reads ep.macAddress, with no lock.
EI_Mac(t) ==
    /\ At(t, "ei_mac")
    /\ Set(t, [th[t] EXCEPT !.pc = "ei_lockn", !.info.MacAddress = eps[th[t].ep].mac])
    /\ UNCHANGED <<dconfig, rules, networks, nets, eps, links, dLock, cfgLock, nLock, ops>>
    /\ Track(t)

EI_LockN(t) == LockN(t, "ei_lockn", "ei_reply")

\* EndpointInfo reads n.config.DefaultGatewayIPv4 under n's lock and returns.
EI_Reply(t) ==
    /\ At(t, "ei_reply")
    /\ nLock' = [nLock EXCEPT ![th[t].n] = Free]
    /\ Set(t, [Returned(th[t], NoErr) EXCEPT
                 !.info = [th[t].info EXCEPT
                             !.Gateway = nets[th[t].n].config.DefaultGatewayIPv4]])
    /\ UNCHANGED <<dconfig, rules, networks, nets, eps, links, dLock, cfgLock, ops>>
    /\ Track(t)

\* The steps of Join, Leave and EndpointInfo after getNetwork.
LookupSteps(t) ==
    \/ LK_Get(t)
    \/ JN_Reply(t)
    \/ EI_Mac(t)
    \/ EI_LockN(t)
    \/ EI_Reply(t)

----------------------------------------------------------------------------
\* The adapter's calls that never reach the driver core.

Unimplemented ==
    {"AllocateNetwork", "FreeNetwork", "Driver.EndpointInfo",
     "ProgramExternalConnectivity", "RevokeExternalConnectivity"}
Discoveries == {"DiscoverNew", "DiscoverDelete"}

\* The call returns what its body returns: it reads and writes nothing of
\* the driver.
CallAdapter(t, calls, r) ==
    /\ Ready(t)
    /\ ops < MaxOps
    /\ ops' = ops + 1
    /\ \E op \in calls :
         Start(t, Returned([Begin(t, op, NoNet, "") EXCEPT !.pc = "adapter"], r))
    /\ touched' = [touched EXCEPT ![t] = FALSE]
    /\ UNCHANGED <<dconfig, rules, networks, nets, eps, links, dLock, cfgLock, nLock>>

\* Fault variant of CallUnimplemented: the calls report success.
CallUnimplemented_Nil(t) == CallAdapter(t, Unimplemented, NoErr)

CallUnimplemented(t) == CallAdapter(t, Unimplemented, NotImplemented)
CallDiscover(t) == CallAdapter(t, Discoveries, NoErr)

----------------------------------------------------------------------------
\* The network lifecycle, from the driver newBridgeDriver constructs.

Next == \E t \in Threads : CreateNetwork(t) \/ DeleteNetwork(t)

Spec == Init /\ [][Next]_vars

----------------------------------------------------------------------------
\* The endpoint lifecycle, on a driver in which CreateNetwork of the first
\* network id has succeeded and, on some, CreateEndpoint of "e1" as well.

FirstNet == [pre |-> "aaa", suf |-> "1"]

\* The record a CreateEndpoint of "e1" without options leaves on a network of
\* the configuration c.
EndpointOne(c) ==
    LET mac == GenerateMACFromIP(Addr2.IP) IN
    [id |-> "e1", nid |-> FirstNet, srcName |-> VethName(2),
     addr |-> Addr2,
     addrv6 |-> IF c.EnableIPv6 THEN DeriveIPv6(c.PoolIPv6, mac) ELSE NilNet,
     mac |-> mac,
     config |-> [nil |-> TRUE, MacAddress |-> NilIP]]

\* The registry, the objects and the links after CreateNetwork(FirstNet) with
\* the options o and, when withEp, CreateEndpoint of "e1" succeeded.
ProvisionedWith(o, withEp, c) ==
    /\ networks = [i \in Keys |-> IF i = FirstNet THEN 1 ELSE 0]
    /\ nets = << [id |-> FirstNet, config |-> ConfigOf(FirstNet, o), link |-> 1,
                  endpoints |-> [e \in EpIds |-> IF withEp /\ e = "e1" THEN 1 ELSE 0],
                  gone |-> FALSE, iptCleanFuncs |-> <<>>] >>
    /\ eps = IF withEp THEN <<EndpointOne(ConfigOf(FirstNet, o))>> ELSE <<>>
    /\ links = << [kind |-> "bridge", name |-> BridgeNameOf(FirstNet, o), peer |-> "",
                   alive |-> TRUE, up |-> TRUE, disable_ipv6 |-> ParamOff, hairpin |-> FALSE] >>
               \o (IF withEp
                   THEN << [kind |-> "veth", name |-> VethName(1), peer |-> VethName(2),
                            alive |-> TRUE, up |-> TRUE, disable_ipv6 |-> ParamOff, hairpin |-> FALSE] >>
                   ELSE <<>>)
    /\ dLock = Free
    /\ cfgLock = Free
    /\ nLock = <<Free>>
    /\ th = [t \in Threads |-> Idle]
    /\ touched = [t \in Threads |-> FALSE]
    /\ ops = 0
    /\ dconfig = c
    /\ rules = {}

Provisioned(o, withEp) == ProvisionedWith(o, withEp, configuration)

InitEp == \E o \in GoodOptions : Provisioned(o, FALSE)

NextEp == \E t \in Threads : CreateEndpoint(t) \/ DeleteNetwork(t) \/ DN_EpDel(t)

SpecEp == InitEp /\ [][NextEp]_vars

----------------------------------------------------------------------------
\* The calls one after another, with every kind of argument, on a driver in
\* which CreateNetwork of the first network id has succeeded and, on some,
\* CreateEndpoint of "e1" as well.

Caller == "t1"

Addr6 == IPNet(<<253, 0, 0, 0, 0, 0, 0, 0, 0, 0, 0, 0, 0, 0, 0, 9>>, 64)

SeqOptions ==
    { Options("",    "",     FALSE, <<IPAM(Pool4, NilIP)>>, <<>>),
      Options("brA", "1500", TRUE,  <<IPAM(Pool4, NilIP)>>, <<IPAM(Pool6(64), NilIP)>>),
      Options("brA", "",     TRUE,  <<IPAM(Pool4, NilIP)>>, <<IPAM(Pool6(80), NilIP)>>),
      Options("brA", "",     TRUE,  <<IPAM(Pool4, NilIP)>>, <<IPAM(Pool6(81), NilIP)>>) }

\* Options with a container interface prefix and with default gateways: an
\* IPv4 one, an IPv6 one, both.
AttachOptions ==
    { [Options("", "", FALSE, <<IPAM(Pool4, GatewayIn)>>, <<>>) EXCEPT !.prefix = "en"],
      Options("brA", "", TRUE, <<IPAM(Pool4, NilIP)>>, <<IPAM(Pool6(64), Gateway6In)>>),
      Options("brA", "", TRUE, <<IPAM(Pool4, GatewayIn)>>, <<IPAM(Pool6(64), Gateway6In)>>) }

\* Interface requests and endpoint options, by endpoint id.
SeqInterfaces(eid) ==
    IF eid = "e1" THEN { EI(NilIP, Addr2, NilNet) }
    ELSE { EI(NilIP, Addr2, NilNet), EI(MacA, Addr3, NilNet), EI(NilIP, Addr3, Addr6),
           EI(NilIP, NilNet, NilNet) }

SeqEpOptions(eid) ==
    IF eid = "e1" THEN { NilOptions, EpOptions(FALSE, "hw", MacB), EpOptions(FALSE, "other", NilIP) }
    ELSE { NilOptions, EpOptions(FALSE, "absent", NilIP), EpOptions(FALSE, "hw", MacB) }

SeqEndpointCalls ==
    {[nid |-> nid, eid |-> eid, ei |-> ei, epo |-> epo] :
       nid \in NetIds \cup {NoNet}, eid \in EpIds \cup {""},
       ei \in UNION {SeqInterfaces(e) : e \in EpIds},
       epo \in UNION {SeqEpOptions(e) : e \in EpIds}}

SeqCreateEndpoint(t) ==
    StartCreateEndpoint(t, {c \in SeqEndpointCalls :
                              c.ei \in SeqInterfaces(c.eid) /\ c.epo \in SeqEpOptions(c.eid)})

SeqCreateNetwork(t) ==
    StartCreateNetworkOf(t, Keys, SeqOptions \cup BadOptions \cup UnparsedOptions \cup GatewayOptions)

\* An endpoint without an IPv6 address of its own exists only on a network
\* whose prefix allows the derivation.
InitSeq ==
    \E o \in SeqOptions \cup AttachOptions, withEp \in BOOLEAN :
      /\ withEp => (IF o.v6 THEN o.v6d[1].Pool.ones <= 80 ELSE TRUE)
      /\ Provisioned(o, withEp)

NextSeq ==
    \/ SeqCreateNetwork(Caller) \/ CreateNetworkSteps(Caller)
    \/ DeleteNetwork(Caller) \/ DN_EpDel(Caller)
    \/ SeqCreateEndpoint(Caller) \/ CreateEndpointSteps(Caller)
    \/ CallDeleteEndpoint(Caller) \/ DeleteEndpointSteps(Caller)
    \/ CallJoin(Caller) \/ CallLeave(Caller) \/ CallEndpointInfo(Caller)
    \/ LookupSteps(Caller)
    \/ CallUnimplemented(Caller) \/ CallDiscover(Caller)

SpecSeq == InitSeq /\ [][NextSeq]_vars

----------------------------------------------------------------------------
\* Every call of the driver core running beside every other, on a driver in
\* which CreateNetwork of the first network id and CreateEndpoint of "e1" have
\* succeeded; one choice of arguments for each call.

AllOptions == Options("", "", FALSE, <<IPAM(Pool4, NilIP)>>, <<>>)

InitAll == Provisioned(Options("brA", "1500", TRUE, <<IPAM(Pool4, NilIP)>>,
                               <<IPAM(Pool6(64), NilIP)>>), TRUE)

AllCreateNetwork(t) == StartCreateNetwork(t, {AllOptions})

AllCreateEndpoint(t) ==
    StartCreateEndpoint(t, {[nid |-> FirstNet, eid |-> "e2",
                             ei |-> EI(NilIP, Addr3, NilNet), epo |-> NilOptions]})

AllLookup(t) ==
    \E op \in {"DeleteEndpoint", "Join", "Leave", "EndpointInfo"} :
      StartLookup(t, op, {FirstNet}, EpIds)

\* A step of the call thread t runs.
Steps(t) ==
    \/ CreateNetworkSteps(t)
    \/ DeleteNetworkSteps(t) \/ DN_EpDel(t)
    \/ CreateEndpointSteps(t)
    \/ DeleteEndpointSteps(t)
    \/ LookupSteps(t)

NextAll ==
    \E t \in Threads :
      \/ AllCreateNetwork(t) \/ CallDeleteNetwork(t) \/ AllCreateEndpoint(t) \/ AllLookup(t)
      \/ Steps(t)

SpecAll == InitAll /\ [][NextAll]_vars

\* The same with every thread scheduled again and again: a call whose next
\* step stays possible takes it.  Every kernel call returns (each kernel step
\* is possible whenever the thread is at it).
SpecFair == SpecAll /\ \A t \in Threads : WF_vars(Steps(t))

----------------------------------------------------------------------------
\* The driver under each configuration configure can store: one thread
\* creates and deletes networks and endpoints, on the new driver and, with
\* filtering off, on one with a network and an endpoint.

CfgOptions == Options("brA", "1500", FALSE, <<IPAM(Pool4, NilIP)>>, <<>>)

InitCfg ==
    \E c \in Configured :
      \/ Fresh(c)
      \/ ~c.EnableIPTables /\ ProvisionedWith(CfgOptions, TRUE, c)

NextCfg ==
    \/ AllCreateNetwork(Caller) \/ CreateNetworkSteps(Caller)
    \/ DeleteNetwork(Caller) \/ DN_EpDel(Caller)
    \/ AllCreateEndpoint(Caller) \/ CreateEndpointSteps(Caller)

SpecCfg == InitCfg /\ [][NextCfg]_vars

----------------------------------------------------------------------------
\* The calls on one endpoint id of one network, two at a time: CreateEndpoint,
\* DeleteEndpoint, Join, Leave and EndpointInfo of "e1", on a network with and
\* without that endpoint.

InitRace == \E withEp \in BOOLEAN : Provisioned(CfgOptions, withEp)

RaceCreateEndpoint(t) ==
    StartCreateEndpoint(t, {[nid |-> FirstNet, eid |-> "e1",
                             ei |-> EI(NilIP, Addr2, NilNet), epo |-> NilOptions]})

RaceLookup(t) ==
    \E op \in {"DeleteEndpoint", "Join", "Leave", "EndpointInfo"} :
      StartLookup(t, op, {FirstNet}, {"e1"})

NextRace ==
    \E t \in Threads :
      \/ RaceCreateEndpoint(t) \/ RaceLookup(t)
      \/ CreateEndpointSteps(t) \/ DeleteEndpointSteps(t) \/ LookupSteps(t)

SpecRace == InitRace /\ [][NextRace]_vars

----------------------------------------------------------------------------
\* The setup steps on their own: each applied, again and again, to the bridge
\* wrapper of one network on hosts with and without the bridge, up and down,
\* with the parameter reading 0 and 1.

MaxSteps == 3

SetupSteps == {"setupDevice", "setupDeviceUp", "setupDisableIPv6"}

FilterSteps == {"setupIPTables"}

StepOptions == Options("brA", "", FALSE, <<IPAM(Pool4, NilIP)>>, <<>>)

\* found: i.Link is the bridge (newInterface found it).
InitSteps ==
    \E present, found, up, off \in BOOLEAN :
      /\ ~present => (~found /\ ~up /\ ~off)
      /\ networks = [i \in Keys |-> IF i = FirstNet THEN 1 ELSE 0]
      /\ nets = << [id |-> FirstNet, config |-> ConfigOf(FirstNet, StepOptions),
                    link |-> IF found THEN 1 ELSE 0,
                    endpoints |-> [e \in EpIds |-> 0], gone |-> FALSE, iptCleanFuncs |-> <<>>] >>
      /\ eps = <<>>
      /\ links = IF present
                 THEN << [kind |-> "bridge", name |-> BridgeNameOf(FirstNet, StepOptions),
                          peer |-> "", alive |-> TRUE, up |-> up,
                          disable_ipv6 |-> setSysBoolParam(off), hairpin |-> FALSE] >>
                 ELSE <<>>
      /\ dLock = Free
      /\ cfgLock = Free
      /\ nLock = <<Free>>
      /\ th = [t \in Threads |-> Idle]
      /\ touched = [t \in Threads |-> FALSE]
      /\ ops = 0
      /\ dconfig \in Configured
      /\ rules \in SUBSET {BridgeNameOf(FirstNet, StepOptions)}

\* Whether the step has already taken effect on the bridge of the name br,
\* with i the wrapper's link.
TakenEffect(s, br, i) ==
    LET b == LinkByName(br) IN
    CASE s = "setupDevice" -> b # 0 /\ links[b].kind = "bridge"
      [] s = "setupDeviceUp" -> Alive(i) /\ links[i].up
      [] s = "setupDisableIPv6" -> b # 0 /\ getSysBoolParam(links[b].disable_ipv6)
      [] s = "setupIPTables" -> br \in rules

\* step(config, i) is called.
CallStep(t) ==
    /\ th[t].pc \in {"idle", "ret"}
    /\ ops < MaxSteps
    /\ ops' = ops + 1
    /\ \E s \in SetupSteps \cup FilterSteps :
         LET br == nets[1].config.BridgeName IN
         Set(t, [Idle EXCEPT !.pc = s, !.op = s, !.queue = <<s>>, !.n = 1, !.br = br,
                             !.nid = FirstNet, !.config = nets[1].config,
                             !.blink = nets[1].link,
                             !.done = TakenEffect(s, br, nets[1].link)])
    /\ touched' = [touched EXCEPT ![t] = FALSE]
    /\ UNCHANGED <<dconfig, rules, networks, nets, eps, links, dLock, cfgLock, nLock>>

\* The step returns its error.
StepReturn(t) ==
    /\ At(t, "cn_defer")
    /\ Set(t, [Idle EXCEPT !.pc = "ret", !.op = th[t].op, !.res = th[t].err,
                           !.kfail = th[t].kfail, !.made = th[t].made,
                           !.done = th[t].done])
    /\ UNCHANGED <<dconfig, rules, networks, nets, eps, links, dLock, cfgLock, nLock, touched, ops>>

NextSteps ==
    \/ CallStep(Caller)
    \/ SetupDevice(Caller) \/ SetupDeviceMac(Caller)
    \/ SetupDeviceUp(Caller) \/ SetupDeviceUpRefresh(Caller)
    \/ SetupDisableIPv6(Caller) \/ SetupDisableIPv6Set(Caller)
    \/ SetupIPTables(Caller)
    \/ StepReturn(Caller)

SpecSteps == InitSteps /\ [][NextSteps]_vars

----------------------------------------------------------------------------
\* networkConfiguration.Validate on its own, applied to configurations of every
\* shape: with and without pools and gateways, with a pool whose mask ends
\* inside a byte.

Pool25 == IPNet(<<10, 0, 0, 0>>, 25)
GatewayHigh == <<10, 0, 0, 129>>

Configurations ==
    { Config(NoNet, "", mtu, v6, p4, g4, p6, g6) :
        mtu \in {0 - 1, 0, 1500}, v6 \in BOOLEAN,
        p4 \in {NilNet, Pool4, Pool25}, g4 \in {NilIP, GatewayIn, GatewayHigh, GatewayOut},
        p6 \in {NilNet, Pool6(64)}, g6 \in {NilIP, Gateway6In, Gateway6Out} }

\* c.Validate() returns.
CallValidate(t) ==
    /\ th[t].pc \in {"idle", "ret"}
    /\ \E c \in Configurations :
         Set(t, [Idle EXCEPT !.pc = "ret", !.op = "Validate", !.config = c,
                             !.res = Validate(c)])
    /\ UNCHANGED <<dconfig, rules, networks, nets, eps, links, dLock, cfgLock, nLock, touched, ops>>

NextValidate == CallValidate(Caller)

SpecValidate == Init /\ [][NextValidate]_vars

----------------------------------------------------------------------------
\* Properties.

\* The step with which thread t returns from the call op.
Returns(t, op) == th[t].op = op /\ InProgress(t) /\ th'[t].pc = "ret"

\* Thread t is back from the call op with result r.
Back(t, op, r) == th[t].pc = "ret" /\ th[t].op = op /\ th[t].res = r

\* C1: a CreateEndpoint for an endpoint id the network already holds, running
\* with no other call, returns a Forbidden-class error and none of its steps
\* changes the registry, a network, an endpoint record or a host link.
C1_DuplicateEndpoint ==
    [][\A t \in Threads :
         (Returns(t, "CreateEndpoint") /\ th[t].preEp /\ th'[t].quiet)
           => (th'[t].res = Forbidden /\ ~touched'[t])]_vars

C1_Witness ==
    \E t \in Threads :
      /\ Back(t, "CreateEndpoint", Forbidden)
      /\ th[t].preEp /\ th[t].quiet /\ ~touched[t]

\* C2 as stated: when CreateEndpoint returns an error after it inserted the
\* placeholder record (and the kernel refused none of the deletions the call
\* attempted), the endpoint id is absent from the network's map and the veth
\* pair the call created is gone from the host.
C2_AsStated ==
    [][\A t \in Threads :
         (At(t, "ce_undo_record") /\ th'[t].pc = "ret" /\ ~th[t].refused)
           => /\ nets'[th[t].n].endpoints[th[t].eid] = 0
              /\ th[t].made # 0 => ~links'[th[t].made].alive]_vars

\* The record CreateEndpoint stores for thread t's call, in the state after
\* the step.
OwnRecord(t) ==
    /\ th[t].endpoint # 0
    /\ LET c == th[t]
           r == eps'[c.endpoint]
       IN /\ nets'[c.n].endpoints[c.eid] = c.endpoint
          /\ \A e \in EpIds \ {c.eid} : nets'[c.n].endpoints[e] # c.endpoint
          /\ r.id = c.eid
          /\ r.nid = c.nid
          /\ r.srcName = c.sbIf
          /\ r.addr = c.ei.addr
          /\ r.mac = IF c.ei.mac = NilIP THEN GenerateMACFromIP(c.ei.addr.IP) ELSE c.ei.mac

\* A step changes the map slot of an endpoint id, or the record in it, only
\* when it is a step of a CreateEndpoint for that id.
SlotsFramed ==
    \A n \in 1..Len(nets), e \in EpIds :
      LET r == nets[n].endpoints[e] IN
      (nets'[n].endpoints[e] # r \/ (r # 0 /\ eps'[r] # eps[r]))
        => \E u \in Threads : /\ th[u].op = "CreateEndpoint"
                              /\ th[u].eid = e
                              /\ th[u].n = n
                              /\ th'[u].pc # th[u].pc

V4Ok(o) == Len(o.v4d) # 0 /\ o.v4d[1].Pool # DefaultRoute

\* C4 (as amended): a CreateNetwork whose IPv4 data is not empty and does not
\* start with the default route, for an id the registry already holds, running
\* with no other call, returns a Forbidden-class error and none of its steps
\* changes the registry, a network, an endpoint or a host link.
C4_DuplicateNetwork ==
    [][\A t \in Threads :
         (Returns(t, "CreateNetwork") /\ th[t].preNet /\ th'[t].quiet /\ V4Ok(th[t].opt))
           => (th'[t].res = Forbidden /\ ~touched'[t])]_vars

\* C4 as stated: the same for every IPv4 data.
C4_AsStated ==
    [][\A t \in Threads :
         (Returns(t, "CreateNetwork") /\ th[t].preNet /\ th'[t].quiet)
           => (th'[t].res = Forbidden /\ ~touched'[t])]_vars

C4_Witness ==
    \E t \in Threads :
      /\ Back(t, "CreateNetwork", Forbidden)
      /\ th[t].preNet /\ th[t].quiet /\ ~touched[t]
      /\ \E i \in NetIds : networks[i] # 0 /\ Alive(nets[networks[i]].link)

\* C5 as stated: the network object the registry holds under an id is never
\* replaced by another one (the entry changes only from or to absent).
C5_AsStated ==
    [][\A i \in NetIds : networks[i] # 0 => networks'[i] \in {0, networks[i]}]_vars

\* C6 as stated: no two networks in the registry have the same bridge name.
C6_AsStated ==
    \A i, j \in NetIds :
      (i # j /\ networks[i] # 0 /\ networks[j] # 0)
        => nets[networks[i]].config.BridgeName # nets[networks[j]].config.BridgeName

\* C7: when a step of the setup pipeline failed, CreateNetwork returns the
\* step's error and at the return the registry has no entry for the id.
C7_PipelineFailure ==
    [][\A t \in Threads :
         (Returns(t, "CreateNetwork") /\ th[t].inserted /\ th[t].err # NoErr)
           => (th'[t].res = th[t].err /\ networks'[th[t].nid] = 0)]_vars

C7_Witness ==
    \E t \in Threads :
      /\ Back(t, "CreateNetwork", Unclassified)
      /\ th[t].inserted
      /\ Len(nets) = 1
      /\ \A i \in NetIds : networks[i] = 0

\* C8 as stated: when no call is in progress, a live bridge exists on the host
\* exactly for the bridge names of the networks in the registry.
C8_AsStated ==
    (\A t \in Threads : ~InProgress(t))
      => {links[i].name : i \in Bridges}
           = {nets[networks[i]].config.BridgeName : i \in {j \in NetIds : networks[j] # 0}}

\* C9: a DeleteNetwork that found its network and none of whose kernel calls
\* failed returns success with the id out of the registry and no bridge of the
\* network's name on the host.
C9_CreateThenDelete ==
    \A t \in Threads :
      (At(t, "dn_exit") /\ th[t].n # 0 /\ ~th[t].kfail)
        => /\ th[t].res = NoErr
           /\ networks[th[t].nid] = 0
           /\ LinkByName(nets[th[t].n].config.BridgeName) = 0

C9_Witness ==
    \E t \in Threads :
      /\ Back(t, "DeleteNetwork", NoErr)
      /\ th[t].preNet /\ ~th[t].kfail /\ touched[t]
      /\ \A i \in NetIds : networks[i] = 0
      /\ Len(links) = 1
      /\ Bridges = {}

\* C10: a DeleteNetwork of an id the registry does not hold, running with no
\* other call, returns a Maskable-class error and none of its steps changes
\* the registry or a host link.
C10_DeleteUnknown ==
    \A t \in Threads :
      (th[t].pc = "ret" /\ th[t].op = "DeleteNetwork" /\ ~th[t].preNet /\ th[t].quiet)
        => (th[t].res = Maskable /\ ~touched[t])

C10_Witness ==
    \E t \in Threads :
      /\ Back(t, "DeleteNetwork", Maskable)
      /\ ~th[t].preNet /\ th[t].quiet /\ ~touched[t]
      /\ \E i \in NetIds : networks[i] # 0 /\ Alive(nets[networks[i]].link)

\* C11 as stated: DeleteNetwork releases the identifier whatever cleanup step
\* failed: a later CreateNetwork with the id and the options of a network that
\* DeleteNetwork took out of the registry, running with no other call and on an
\* id the registry does not hold, is not refused as Forbidden.
C11_AsStated ==
    [][\A t \in Threads :
         (/\ Returns(t, "CreateNetwork") /\ ~th[t].preNet /\ th'[t].quiet
          /\ \E n \in 1..Len(nets) :
                /\ nets[n].gone
                /\ nets[n].id = th[t].nid
                /\ nets[n].config = ConfigOf(th[t].nid, th[t].opt))
           => th'[t].res # Forbidden]_vars

\* The arguments of a call that validation refuses: IPv4 data that is empty or
\* starts with the default route, an MTU text that is no number, a negative
\* MTU, more than one IPAM record of a family; no interface request, an empty
\* network or endpoint id, a MacAddress option of another type.
Refused(c) ==
    \/ /\ c.op = "CreateNetwork"
       /\ \/ ~V4Ok(c.opt)
          \/ fromLabels(c.nid, c.opt).err # NoErr
          \/ fromLabels(c.nid, c.opt).config.Mtu < 0
          \/ Len(c.opt.v4d) > 1
          \/ Len(c.opt.v6d) > 1
    \/ /\ c.op = "CreateEndpoint"
       /\ \/ c.ei.nil
          \/ c.nid = NoNet
          \/ c.eid = ""
          \/ (~c.epo.nil /\ c.epo.key = "other")

Value(ip) == ((ip[1] * 256 + ip[2]) * 256 + ip[3]) * 256 + ip[4]
InRange(pool, ip) == Value(ip) \div Pow2(32 - pool.ones) = Value(pool.IP) \div Pow2(32 - pool.ones)

\* C13 as stated: on a configuration with a non-negative MTU and IPv6
\* disabled, Validate succeeds exactly when the IPv4 gateway is unset or lies
\* in the IPv4 pool (so a gateway without a pool is refused).
C13_AsStated ==
    \A t \in Threads :
      (/\ th[t].pc = "ret" /\ th[t].op = "Validate"
       /\ th[t].config.Mtu >= 0 /\ ~th[t].config.EnableIPv6)
        => (th[t].res = NoErr
              <=> \/ th[t].config.DefaultGatewayIPv4 = NilIP
                  \/ /\ th[t].config.PoolIPv4 # NilNet
                     /\ InRange(th[t].config.PoolIPv4, th[t].config.DefaultGatewayIPv4))

\* The same, for the configurations that have a pool.
C13_WithPool ==
    \A t \in Threads :
      (/\ th[t].pc = "ret" /\ th[t].op = "Validate"
       /\ th[t].config.Mtu >= 0 /\ ~th[t].config.EnableIPv6
       /\ th[t].config.PoolIPv4 # NilNet)
        => (th[t].res = NoErr
              <=> \/ th[t].config.DefaultGatewayIPv4 = NilIP
                  \/ InRange(th[t].config.PoolIPv4, th[t].config.DefaultGatewayIPv4))

\* C14 as stated: when no call is in progress, every network in the registry
\* has a configuration with a non-negative MTU, an IPv4 gateway (if set)
\* inside its IPv4 pool and, with IPv6 enabled, an IPv6 gateway (if set)
\* inside its IPv6 pool: a CreateNetwork whose IPAM data has a gateway outside
\* the pool registers nothing.
C14_AsStated ==
    (\A t \in Threads : ~InProgress(t))
      => \A i \in NetIds :
           networks[i] # 0 =>
             LET c == nets[networks[i]].config IN
             /\ c.Mtu >= 0
             /\ c.DefaultGatewayIPv4 # NilIP
                  => (c.PoolIPv4 # NilNet /\ InRange(c.PoolIPv4, c.DefaultGatewayIPv4))
             /\ (c.EnableIPv6 /\ c.DefaultGatewayIPv6 # NilIP)
                  => (c.PoolIPv6 # NilNet /\ Contains(c.PoolIPv6, c.DefaultGatewayIPv6))

\* C15 as stated: a CreateNetwork given more than one IPv4 or more than one
\* IPv6 IPAM record, which passed the duplicate check and whose probe found the
\* bridge name free, fails with a BadRequest-class error and registers nothing.
C15_AsStated ==
    [][\A t \in Threads :
         (/\ At(t, "cn_parse") /\ th'[t].pc # "cn_parse"
          /\ Len(th[t].opt.v4d) > 1 \/ Len(th[t].opt.v6d) > 1
          /\ LinkByName(BridgeNameOf(th[t].nid, th[t].opt)) = 0
          /\ ~th'[t].kfail)
           => (th'[t].pc = "ret" /\ th'[t].res = BadRequest /\ networks' = networks)]_vars

\* C16: a CreateNetwork whose IPv4 data is empty or starts with 0.0.0.0/0
\* returns a BadRequest-class error from its first step, before the registry
\* is read, the options parsed or the bridge probed, whether or not the id is
\* in the registry.
C16_FirstCheck ==
    [][\A t \in Threads :
         (Returns(t, "CreateNetwork") /\ ~V4Ok(th[t].opt))
           => (At(t, "cn_start") /\ th'[t].res = BadRequest /\ ~touched'[t])]_vars

C16_Witness ==
    /\ \E t \in Threads : Back(t, "CreateNetwork", BadRequest) /\ th[t].preNet
    /\ \E t \in Threads : Back(t, "CreateNetwork", NoErr)
    /\ \E i \in NetIds : networks[i] # 0

\* C17: a successful CreateEndpoint on a network with IPv6 enabled, for a
\* request without an IPv6 address, stores and returns the address whose
\* bytes 0..9 are those of the network's IPv6 prefix, whose bytes 10..15 are
\* the 6 bytes of the endpoint's MAC, and whose mask is the network's; with
\* an IPv6 address in the request or IPv6 disabled, the record holds the
\* request's IPv6 address and none is returned.
C17_DerivedIPv6 ==
    [][\A t \in Threads :
         (Returns(t, "CreateEndpoint") /\ th'[t].res = NoErr)
           => LET c == nets[th[t].n].config
                  e == eps'[th[t].endpoint]
              IN IF c.EnableIPv6 /\ th[t].ei.v6 = NilNet
                 THEN /\ Len(e.addrv6.IP) = 16
                      /\ \A j \in 1..10 : e.addrv6.IP[j] = c.PoolIPv6.IP[j]
                      /\ \A j \in 1..6 : e.addrv6.IP[10 + j] = e.mac[j]
                      /\ e.addrv6.ones = c.PoolIPv6.ones
                      /\ th'[t].out.v6 = e.addrv6
                 ELSE /\ e.addrv6 = th[t].ei.v6
                      /\ th'[t].out.v6 = NilNet]_vars

\* fd00::242:a00:2/64, from the prefix fd00::/64 and the MAC 02:42:0a:00:00:02,
\* is returned and stored.
C17_Witness ==
    \E t \in Threads :
      /\ Back(t, "CreateEndpoint", NoErr)
      /\ th[t].out.v6 = IPNet(<<253, 0, 0, 0, 0, 0, 0, 0, 0, 0, 2, 66, 10, 0, 0, 2>>, 64)
      /\ \E j \in 1..Len(eps) : eps[j].id = "e2" /\ eps[j].addrv6 = th[t].out.v6

\* C18: when CreateEndpoint comes to derive the IPv6 address, it fails with a
\* Forbidden-class error exactly when the network's prefix is longer than 80
\* bits and returns success otherwise; the failed call returns Forbidden with
\* its endpoint id out of the network's map and, unless the kernel refused a
\* deletion, the veth pair it created gone.
C18_PrefixBound ==
    [][\A t \in Threads :
         /\ (/\ At(t, "ce_v6") /\ th'[t].pc # "ce_v6"
             /\ eps[th[t].endpoint].addrv6 = NilNet
             /\ nets[th[t].n].config.EnableIPv6)
              => IF nets[th[t].n].config.PoolIPv6.ones > 80
                 THEN th'[t].pc # "ret" /\ th'[t].err = Forbidden
                 ELSE th'[t].pc = "ret" /\ th'[t].res = NoErr
         /\ (At(t, "ce_undo_record") /\ th'[t].pc = "ret" /\ th[t].err = Forbidden)
              => /\ th'[t].res = Forbidden
                 /\ nets'[th[t].n].endpoints[th[t].eid] = 0
                 /\ ~th[t].refused => ~links'[th[t].made].alive]_vars

C18_Witness ==
    \E t \in Threads :
      /\ Back(t, "CreateEndpoint", Forbidden)
      /\ th[t].preNet /\ ~th[t].preEp /\ th[t].inserted
      /\ nets[1].config.PoolIPv6.ones = 81
      /\ \A e \in EpIds : nets[1].endpoints[e] = 0
      /\ Len(eps) = 1 /\ eps[1].srcName # ""
      /\ Len(links) = 2 /\ Veths = {}

\* C19: a successful CreateEndpoint whose request carries no MAC gives the
\* endpoint the MAC of the endpoint options when they hold one, byte for byte,
\* and otherwise 02:42 followed by the four bytes of the request's IPv4
\* address, whatever the driver's state, and returns that MAC; a MAC carried
\* by the request is stored and none is returned.
C19_ElectedMac ==
    [][\A t \in Threads :
         (Returns(t, "CreateEndpoint") /\ th'[t].res = NoErr)
           => LET c == th[t]
                  e == eps'[c.endpoint]
              IN IF c.ei.mac # NilIP
                 THEN e.mac = c.ei.mac /\ th'[t].out.mac = NilIP
                 ELSE /\ th'[t].out.mac = e.mac
                      /\ IF ~c.epo.nil /\ c.epo.key = "hw" /\ c.epo.mac # NilIP
                         THEN e.mac = c.epo.mac
                         ELSE /\ Len(e.mac) = 6
                              /\ e.mac[1] = 2 /\ e.mac[2] = 66
                              /\ \A j \in 1..4 : e.mac[2 + j] = c.ei.addr.IP[j]]_vars

\* Two endpoints of one network created for the same IPv4 address, in
\* different states of the driver, hold the same generated MAC.
C19_Witness ==
    \E t \in Threads :
      /\ Back(t, "CreateEndpoint", NoErr)
      /\ th[t].out.mac = <<2, 66, 10, 0, 0, 2>>
      /\ nets[1].endpoints["e1"] # 0 /\ nets[1].endpoints["e2"] # 0
      /\ eps[nets[1].endpoints["e1"]].mac = eps[nets[1].endpoints["e2"]].mac
      /\ eps[nets[1].endpoints["e1"]].addr = eps[nets[1].endpoints["e2"]].addr

C21_AsStated ==
    [][\A t \in Threads :
         \A op \in {"CreateEndpoint", "DeleteEndpoint", "Join", "Leave", "EndpointInfo"} :
           (Returns(t, op) /\ th[t].nid # NoNet /\ th[t].eid # "")
             => /\ ~th[t].preNet => th'[t].res = NotFound
                /\ (th[t].preNet /\ ~th[t].preEp /\ op \in {"Join", "Leave", "EndpointInfo"})
                     => th'[t].res = NotFound]_vars

\* The same with Leave's unknown network left out: what the code does.
C21_ButLeave ==
    [][\A t \in Threads :
         \A op \in {"CreateEndpoint", "DeleteEndpoint", "Join", "Leave", "EndpointInfo"} :
           (Returns(t, op) /\ th[t].nid # NoNet /\ th[t].eid # "")
             => /\ ~th[t].preNet
                     => th'[t].res = IF op = "Leave" THEN Maskable ELSE NotFound
                /\ (th[t].preNet /\ ~th[t].preEp /\ op \in {"Join", "Leave", "EndpointInfo"})
                     => th'[t].res = NotFound]_vars

\* C22: a Join that succeeds, with no other call running, returns the name
\* of the sandbox side of the endpoint's veth pair, the interface prefix of the network's
\* configuration ("eth" when it has none), the network's two gateways, and
\* DisableGatewayService exactly when the network has neither gateway.
C22_JoinResponse ==
    [][\A t \in Threads :
         (Returns(t, "Join") /\ th'[t].res = NoErr)
           => LET c == nets[networks[th[t].nid]].config
                  e == eps[nets[networks[th[t].nid]].endpoints[th[t].eid]]
                  j == th'[t].join
              IN /\ j.SrcName = e.srcName
                 /\ \E i \in Veths : links[i].peer = j.SrcName
                 /\ j.DstPrefix = IF c.ContainerIfacePrefix = "" THEN "eth"
                                  ELSE c.ContainerIfacePrefix
                 /\ j.Gateway = c.DefaultGatewayIPv4
                 /\ j.GatewayIPv6 = c.DefaultGatewayIPv6
                 /\ j.DisableGatewayService
                      <=> (c.DefaultGatewayIPv4 = NilIP /\ c.DefaultGatewayIPv6 = NilIP)]_vars

\* Join is back on a network with an IPv6 gateway only, for an endpoint
\* created in the same run.
C22_Witness ==
    \E t \in Threads :
      /\ Back(t, "Join", NoErr)
      /\ th[t].join.Gateway = NilIP /\ th[t].join.GatewayIPv6 = Gateway6In
      /\ ~th[t].join.DisableGatewayService
      /\ th[t].join.DstPrefix = "eth"
      /\ Len(eps) = 1 /\ eps[1].id = "e2" /\ th[t].join.SrcName = eps[1].srcName

\* C23: the adapter's AllocateNetwork, FreeNetwork, EndpointInfo,
\* ProgramExternalConnectivity and RevokeExternalConnectivity return a
\* NotImplemented error and its DiscoverNew and DiscoverDelete return nil, and
\* none of them changes the registry, an endpoint map or a link.
C23_AdapterStubs ==
    [][\A t \in Threads :
         (th[t].pc \in {"idle", "ret"} /\ th'[t].pc = "ret" /\ ops' # ops
            /\ th'[t].op \in Unimplemented \cup Discoveries)
           => /\ th'[t].res = IF th'[t].op \in Unimplemented THEN NotImplemented ELSE NoErr
              /\ UNCHANGED <<networks, nets, eps, links>>]_vars

\* FreeNetwork is refused after an endpoint was created, with the network, the
\* two endpoints and their links as they were.
C23_Witness ==
    \E t \in Threads :
      /\ Back(t, "FreeNetwork", NotImplemented)
      /\ ops = 2
      /\ networks[FirstNet] = 1
      /\ \A e \in EpIds : nets[1].endpoints[e] # 0
      /\ Cardinality(Veths) = 2

\* A CreateNetwork or DeleteNetwork call that has read the registry (the
\* duplicate-id check, deleteNetwork's lookup) and has not yet left
\* createNetwork or deleteNetwork.
PastFirstRead(t) ==
    /\ InProgress(t)
    /\ \/ /\ th[t].op = "CreateNetwork"
          /\ th[t].pc \notin {"cn_start", "cn_lockd", "cn_dup", "cn_exit"}
       \/ /\ th[t].op = "DeleteNetwork"
          /\ th[t].pc \notin {"dn_cfglock", "dn_lockd", "dn_get", "dn_exit"}

\* C24 as stated: CreateNetwork and DeleteNetwork calls do not overlap between
\* their first read of the registry or of the host's bridges and their last
\* write to them: no call writes the registry or a link while another one is
\* past its first read.
C24_AsStated ==
    [][\A t, u \in Threads :
         (/\ t # u
          /\ th[t].op \in {"CreateNetwork", "DeleteNetwork"} /\ InProgress(t)
          /\ th'[t] # th[t]
          /\ networks' # networks \/ links' # links)
           => ~PastFirstRead(u)]_vars

\* C25: no thread holds a network's lock and the driver's lock at once, and a
\* thread that takes the configNetwork lock holds neither of the two.
C25_LockOrder ==
    /\ \A t \in Threads : ~(dLock = t /\ \E n \in DOMAIN nLock : nLock[n] = t)
    /\ \A t \in Threads :
         th[t].pc \in {"cn_cfglock", "dn_cfglock"}
           => (dLock # t /\ \A n \in DOMAIN nLock : nLock[n] # t)

\* One thread holds the configNetwork lock and the network's lock while another
\* holds the driver's lock.
C25_Witness ==
    \E t, u \in Threads :
      /\ t # u
      /\ cfgLock = t /\ nLock[1] = t
      /\ dLock = u /\ th[u].op = "CreateEndpoint"

\* C26: with every thread scheduled and every kernel call returning, every
\* call that was started returns.
C26_Returns ==
    \A t \in Threads : InProgress(t) ~> th[t].pc = "ret"

\* A CreateNetwork waits for the configNetwork lock, which a DeleteNetwork
\* that is about to delete the bridge holds.
C26_Witness ==
    \E t, u \in Threads :
      /\ th[t].pc = "cn_cfglock" /\ cfgLock = u
      /\ th[u].op = "DeleteNetwork" /\ th[u].pc = "dn_brdel"

\* C27: a thread changes a link only while it holds the OS execution context,
\* it never holds more than one, and a thread without a call in progress holds
\* none: every context taken was given back, once, on the way out.
C27_OSContext ==
    [][\A t \in Threads :
         /\ (th'[t] # th[t] /\ links' # links) => th[t].os = 1
         /\ th'[t].os \in {0, 1}
         /\ th'[t].pc \in {"idle", "ret"} => th'[t].os = 0]_vars

\* A CreateEndpoint is back with an error after its undo steps, holding no
\* context, while the other thread's DeleteNetwork holds one.
C27_Witness ==
    \E t, u \in Threads :
      /\ th[t].pc = "ret" /\ th[t].op = "CreateEndpoint" /\ th[t].res # NoErr
      /\ th[t].kfail /\ th[t].os = 0
      /\ InProgress(u) /\ th[u].op = "DeleteNetwork" /\ th[u].os = 1

\* The queued step a position of the pipeline belongs to ("" outside of it).
StepAt(pc) ==
    CASE pc \in {"setupDevice", "setupDeviceMac"} -> "setupDevice"
      [] pc \in {"setupDeviceUp", "setupDeviceUpRefresh"} -> "setupDeviceUp"
      [] OTHER -> ""

\* C28: the pipeline of CreateNetwork runs the queued steps in the order of
\* the queue; when a step returns an error no later step runs, CreateNetwork
\* returns that error, and what the steps before did to the host is left as
\* it is (from the failure to the return the call changes no link).
C28_Pipeline ==
    [][\A t \in Threads :
         (th[t].op = "CreateNetwork" /\ th'[t] # th[t] /\ InProgress(t))
           => /\ StepAt(th[t].pc) # ""
                   => /\ th[t].queue # <<>> /\ Head(th[t].queue) = StepAt(th[t].pc)
                      /\ th'[t].queue \in {th[t].queue, Tail(th[t].queue)}
                      /\ th'[t].err = NoErr
                           => \/ /\ th'[t].queue = th[t].queue
                                 /\ StepAt(th'[t].pc) = StepAt(th[t].pc)
                              \/ /\ th'[t].queue = Tail(th[t].queue)
                                 /\ IF th'[t].queue = <<>> THEN th'[t].pc = "cn_defer"
                                    ELSE th'[t].pc = Head(th'[t].queue)
                      /\ th'[t].err # NoErr => th'[t].pc = "cn_defer"
              /\ th[t].err # NoErr
                   => /\ StepAt(th'[t].pc) = ""
                      /\ links' = links
                      /\ th'[t].pc = "ret" => th'[t].res = th[t].err]_vars

\* setupDevice added the bridge and failed: setupDeviceUp is still queued, the
\* call is about to return the error, the bridge is on the host and down.
C28_Witness ==
    \E t \in Threads :
      /\ th[t].op = "CreateNetwork" /\ th[t].pc = "cn_exit" /\ th[t].err # NoErr
      /\ th[t].queue = <<"setupDevice", "setupDeviceUp">>
      /\ Alive(th[t].made) /\ ~links[th[t].made].up

\* C29: when createNetwork queues the steps, setupDevice is in the queue
\* exactly when newInterface found no bridge of the configured name, and
\* setupDeviceUp is in it always and is its last step; setupDeviceUp runs only
\* in a call that found the bridge or has added it.
C29_QueuedSteps ==
    [][\A t \in Threads :
         /\ (At(t, "cn_insert") /\ th'[t].pc # th[t].pc)
              => LET q == th'[t].queue IN
                 /\ (\E k \in 1..Len(q) : q[k] = "setupDevice") <=> th[t].blink = 0
                 /\ Len(q) > 0 /\ q[Len(q)] = "setupDeviceUp"
                 /\ \A k \in 1..(Len(q) - 1) : q[k] # "setupDeviceUp"
         /\ (At(t, "setupDeviceUp") /\ th'[t].pc # th[t].pc)
              => (th[t].blink # 0 \/ th[t].made # 0)]_vars

\* Both cases: a call that found the bridge another call had just added is
\* at setupDeviceUp alone in its queue, beside a call that added its own.
C29_Witness ==
    \E t, u \in Threads :
      /\ At(t, "setupDeviceUp") /\ th[t].queue = <<"setupDeviceUp">>
      /\ th[t].blink # 0 /\ th[t].made = 0
      /\ th[u].op = "CreateNetwork" /\ th[u].pc = "ret" /\ th[u].res = NoErr
      /\ th[u].inserted

\* C30: a setup step applied to a bridge on which it has already taken effect
\* (the bridge exists, the link is up, disable_ipv6 reads 1), with no kernel
\* call failing, returns nil and leaves the host as it was.
C30_AsStated ==
    \A t \in Threads :
      (th[t].pc = "ret" /\ th[t].op \in SetupSteps /\ th[t].done /\ ~th[t].kfail)
        => (th[t].res = NoErr /\ ~touched[t])

\* No call is running.
Quiescent == \A t \in Threads : ~InProgress(t)

\* Some network of the registry is bound to the bridge name b.
Bound(b) ==
    \E k \in NetIds : networks[k] # 0 /\ nets[networks[k]].config.BridgeName = b

BridgeNames == {"brA"} \cup {BridgeNameOf(k, AllOptions) : k \in NetIds}

\* C31: with filtering enabled, whenever no call is running the rule of a
\* bridge name is installed exactly when a network of the registry is bound to
\* that name, and a registered network carries exactly one removal closure.
C31_AsStated ==
    (Quiescent /\ dconfig.EnableIPTables)
      => /\ \A b \in BridgeNames : b \in rules <=> Bound(b)
         /\ \A k \in NetIds :
              networks[k] # 0 => Len(nets[networks[k]].iptCleanFuncs) = 1

\* C32: a CreateEndpoint that returns nil has set hairpin mode on the host
\* side exactly when EnableUserlandProxy is false, and with it true calls
\* setHairpinMode not at all; a call whose setHairpinMode returned an error
\* returns an error, with its record out of the map and its veth pair deleted
\* unless the kernel refused the deletion.
C32_Hairpin ==
    [][\A t \in Threads :
         (th[t].op = "CreateEndpoint" /\ InProgress(t) /\ th'[t].pc = "ret")
           => /\ th'[t].res = NoErr
                   => /\ links'[th[t].host].hairpin <=> ~dconfig.EnableUserlandProxy
                      /\ th[t].hp = (IF dconfig.EnableUserlandProxy THEN "none" ELSE "set")
              /\ dconfig.EnableUserlandProxy => th[t].hp = "none"
              /\ th[t].hp = "failed"
                   => /\ th'[t].res # NoErr
                      /\ nets'[th[t].n].endpoints[th[t].eid] = 0
                      /\ ~th[t].refused => ~links'[th[t].host].alive]_vars

\* Under the userland proxy a call has passed the hairpin step without the
\* call: its host side has no hairpin mode.
C32_Witness ==
    \E t \in Threads :
      /\ th[t].op = "CreateEndpoint" /\ th[t].pc = "ce_up"
      /\ dconfig.EnableUserlandProxy /\ th[t].hp = "none"
      /\ ~links[th[t].host].hairpin

\* C33: a CreateNetwork without a bridge name option that gets as far as
\* the default name goes on with "br-" and the first 12 characters of the
\* id, whatever the length of the non-empty id: it does not stop there.
C33_AsStated ==
    [][\A t \in Threads :
         (At(t, "cn_parse") /\ th'[t].pc # th[t].pc /\ th[t].opt.br = ""
            /\ th[t].nid # NoNet)
           => /\ th'[t].pc \in {"ret", "cn_cfglock"}
              /\ th'[t].pc = "cn_cfglock" => th'[t].br = "br-" \o th[t].nid.pre]_vars

\* C34: the step in which a DeleteEndpoint returns changes the slot of its
\* endpoint id only from empty to the record it removed, and not at all when
\* it returns nil; no other step of a DeleteEndpoint writes a record into a
\* slot.
C34_NoOverwrite ==
    [][\A t \in Threads :
         (th[t].op = "DeleteEndpoint" /\ InProgress(t) /\ th[t].n # 0 /\ th[t].eid # ""
            /\ th'[t].pc # th[t].pc)
           => LET before == nets[th[t].n].endpoints[th[t].eid]
                  after == nets'[th[t].n].endpoints[th[t].eid]
              IN /\ (after # before /\ after # 0)
                      => (At(t, "de_defer") /\ before = 0 /\ after = th[t].ep)
                 /\ (th'[t].pc = "ret" /\ th'[t].res = NoErr) => after = before]_vars

\* A DeleteEndpoint is about to return while the slot holds the record a
\* CreateEndpoint inserted after the removal.
C34_Witness ==
    \E t \in Threads :
      /\ th[t].op = "DeleteEndpoint" /\ At(t, "de_defer")
      /\ nets[th[t].n].endpoints[th[t].eid] \notin {0, th[t].ep}

\* C35: no step of a Leave or of an EndpointInfo changes the registry, a
\* network object (its endpoint map included), an endpoint record or a link,
\* whatever the call returns.
C35_ReadOnly ==
    [][\A t \in Threads :
         (th[t].op \in {"Leave", "EndpointInfo"} /\ InProgress(t)
            /\ th'[t].pc # th[t].pc)
           => /\ networks' = networks /\ nets' = nets /\ eps' = eps /\ links' = links
              /\ rules' = rules
              /\ ~touched'[t]]_vars

\* A Leave of an endpoint that exists has returned nil.
C35_Witness ==
    \E t \in Threads :
      /\ th[t].op = "Leave" /\ th[t].pc = "ret" /\ th[t].res = NoErr
      /\ \E k \in NetIds : networks[k] # 0 /\ nets[networks[k]].endpoints["e1"] # 0

\* C36: every network of the registry is stored under its id, which is its
\* configuration's ID too, and every endpoint of its map under the
\* endpoint's id, with the network's id as its nid; the network getNetwork
\* checks has the id asked for.
C36_OwnIds ==
    /\ \A k \in Keys :
         networks[k] # 0
           => LET n == nets[networks[k]] IN
              /\ n.id = k /\ n.config.ID = k
              /\ \A e \in EpIds :
                   n.endpoints[e] # 0
                     => eps[n.endpoints[e]].id = e /\ eps[n.endpoints[e]].nid = k
    /\ \A t \in Threads : At(t, "gn_check") => nets[th[t].n].id = th[t].nid

\* A call is at getNetwork's check while the registry holds a network a
\* CreateNetwork of this run has stored.
C36_Witness ==
    /\ \E t \in Threads : At(t, "gn_check")
    /\ \E k \in NetIds \ {FirstNet} : networks[k] # 0

\* C37: of two CreateEndpoint calls of the same endpoint id on the same
\* network that overlap, at most one returns nil; and when a CreateEndpoint
\* has returned nil and no DeleteEndpoint was called, the network's map holds
\* a record under that id.
C37_AsStated ==
    /\ ~(\A t \in Threads :
           /\ th[t].op = "CreateEndpoint" /\ th[t].pc = "ret" /\ th[t].res = NoErr
           /\ ~th[t].quiet)
    /\ \A u \in Threads :
         (/\ th[u].op = "CreateEndpoint" /\ th[u].pc = "ret" /\ th[u].res = NoErr
          /\ \A t \in Threads : th[t].op \in {"", "CreateEndpoint"}
          /\ Quiescent)
           => nets[networks[FirstNet]].endpoints["e1"] # 0

\* C38: the record a Join, an EndpointInfo or a DeleteEndpoint has found in
\* the map has its sandbox-side interface name, its address and its MAC, and
\* a Join that returns nil returns a sandbox-side interface name.
C38_AsStated ==
    \A t \in Threads :
      /\ (th[t].op \in {"Join", "EndpointInfo", "DeleteEndpoint"} /\ InProgress(t)
            /\ th[t].ep # 0)
           => /\ eps[th[t].ep].srcName # ""
              /\ eps[th[t].ep].addr # NilNet
              /\ eps[th[t].ep].mac # NilIP
      /\ (th[t].op = "Join" /\ th[t].pc = "ret" /\ th[t].res = NoErr)
           => th[t].join.SrcName # ""

\* C40: a CreateEndpoint whose request has neither a MAC nor an IPv4 address
\* does not stop at the election of the MAC, and after it the endpoint map
\* does not hold its placeholder record next to its veth pair on the host
\* unless the call has returned success.
C40_AsStated ==
    \A t \in Threads :
      (th[t].op = "CreateEndpoint" /\ th[t].ei.mac = NilIP /\ th[t].ei.addr = NilNet)
        => ~(/\ th[t].pc = "panic"
             /\ nets[th[t].n].endpoints[th[t].eid] = th[t].endpoint
             /\ th[t].made \in Veths)

\* C39: with every kernel call succeeding, a CreateEndpoint that started
\* while its network was in the registry returns success only with the
\* network still in the registry and its record in the network's map; and
\* once a DeleteNetwork has returned nil and no call is running, no veth link
\* is left on the host.
C39_AsStated ==
    [][/\ \A t \in Threads :
            (/\ Returns(t, "CreateEndpoint") /\ th'[t].res = NoErr
             /\ th[t].preNet /\ \A u \in Threads : ~th'[u].kfail)
              => /\ networks'[th[t].nid] # 0
                 /\ nets'[networks'[th[t].nid]].endpoints[th[t].eid] = th[t].endpoint
       /\ (/\ \A t \in Threads : ~InProgress(t) /\ ~th[t].kfail
           /\ \A t \in Threads : th[t].op = "CreateEndpoint" => th[t].preNet
           /\ \E t \in Threads : Back(t, "DeleteNetwork", NoErr))
            => Veths = {}]_vars

====
